---- MODULE Spec2Model ----
(***************************************************************************)
(* Session / run orchestration of the Deep Research front ends.            *)
(*                                                                         *)
(* One process runs one of the server scripts:                             *)
(*   "async"  src/async_research_mcp.py        (session tools)             *)
(*   "async_poll"  the same module, its poll_for_completion awaited        *)
(*   "final"  src/async_research_mcp_final.py  (awaiting research_question)*)
(*   "deep"   src/mcp_deep_research_server.py  (DeepResearchMCP)           *)
(*   "simple" src/simple_research_mcp.py       (one blocking tool)         *)
(* The remote LangGraph engine is the environment: every HTTP call may     *)
(* raise, answer with a non-success status, or answer from the engine's    *)
(* state (assistants, threads, runs).                                      *)
(***************************************************************************)
EXTENDS Integers, Sequences, FiniteSets, TLC

VARIABLES
    server,            \* which script this process runs
    clock,             \* time.time()
    assistant_id,      \* the module-global / self.assistant_id cache
    active_sessions,   \* the module-global registry: session id -> record
    current_thread_id, \* DeepResearchMCP.current_thread_id, and the
                       \* module-global of simple_research_mcp.py
    engAssistants,     \* engine: number of assistants that exist
    engThreads,        \* engine: number of threads that exist
    engRuns,           \* engine: run id -> [thread, status]
    tasks,             \* the calls that wait: task id -> record
    ret,               \* what the last operation returned to its caller
    createCalls,       \* history: POST /assistants issued so far
    timedOut           \* history: the sessions whose wait ended timed out

vars == <<server, clock, assistant_id, active_sessions, current_thread_id,
          engAssistants, engThreads, engRuns, tasks, ret, createCalls,
          timedOut>>

(***************************************************************************)
(* Bounds of the model.                                                    *)
(***************************************************************************)
MaxThreads == 2
MaxRuns == 2
MaxClock == 4
MaxCreateCalls == 2
\* the assistants the engine holds at most
MaxAssistants == 1
\* the largest deadline a caller passes to a waiter
MaxTimeout == 4
\* stands for the 720 that research_question of async_research_mcp.py
\* hard-codes; it is never read from a caller's argument
SyncTimeout == 4
\* the timeout a caller passes to research_question_sync
SyncCallerTimeout == 2
\* stands for the 60 of `for _ in range(60)` in simple_research_mcp.py
SimplePolls == 2
\* a timeout that is no multiple of the polling interval
OddTimeout == 3

\* asyncio.sleep(2) / time.sleep(2)
PollInterval == 2

Servers == {"async", "async_poll", "final", "deep", "simple"}
\* str(uuid.uuid4())[:8]: any id, also one that is live
SessionIds == {"s1", "s2"}
Questions == {"q1"}
TaskIds == {1, 2}
Timeouts == {MaxTimeout}
\* the timeout argument of the conduct_research tool: any integer
DeepTimeouts == {0, OddTimeout, MaxTimeout}

NoId == 0
NoSession == "None"

(***************************************************************************)
(* Text.  A Python str is a sequence of one-character strings.             *)
(***************************************************************************)
Upper == [c \in {"C", "L", "A", "R", "I", "F", "Y", "S", "P", "E"} |->
            CASE c = "C" -> "c" [] c = "L" -> "l" [] c = "A" -> "a"
              [] c = "R" -> "r" [] c = "I" -> "i" [] c = "F" -> "f"
              [] c = "Y" -> "y" [] c = "S" -> "s" [] c = "P" -> "p"
              [] c = "E" -> "e"]

\* str.lower()
Lower(s) == [i \in 1..Len(s) |-> IF s[i] \in DOMAIN Upper THEN Upper[s[i]] ELSE s[i]]

\* sub in s
Contains(s, sub) ==
    \E i \in 1..(Len(s) - Len(sub) + 1) : SubSeq(s, i, i + Len(sub) - 1) = sub

QMark == <<"?">>
Clarify == <<"c", "l", "a", "r", "i", "f", "y">>
Specify == <<"s", "p", "e", "c", "i", "f", "y">>

TParis == <<"P", "a", "r", "i", "s", ".">>
TWhy == <<"w", "h", "y", "?">>
TClarifyUp == <<"C", "L", "A", "R", "I", "F", "Y", " ", "i", "t">>
TSpecify == <<"p", "l", "s", " ", "S", "p", "e", "c", "i", "f", "y">>
TEmpty == << >>

\* an optional text: values.get("final_report") is None, "" or a text
Absent == [has |-> FALSE, text |-> TEmpty]
Text(s) == [has |-> TRUE, text |-> s]
\* Python truthiness of an optional str
Truthy(x) == x.has /\ x.text # TEmpty

(***************************************************************************)
(* Thread state snapshots (GET /threads/{id}/state).  A message of the     *)
(* JSON body is a dict with a content, a dict without one, or a bare str.  *)
(***************************************************************************)
MsgDict(c) == [shape |-> "dict", content |-> c]
MsgNoContent == [shape |-> "dict_nocontent", content |-> TEmpty]
MsgStr(c) == [shape |-> "str", content |-> c]

Snapshot(r, m, s) == [final_report |-> r, messages |-> m, status |-> s]

Snapshots ==
    { Snapshot(Text(TParis), <<MsgDict(TWhy)>>, "idle"),
      Snapshot(Text(TParis), << >>, "idle"),
      Snapshot(Text(TEmpty), <<MsgDict(TParis), MsgDict(TClarifyUp)>>, "idle"),
      Snapshot(Absent, <<MsgDict(TWhy), MsgDict(TParis)>>, "idle"),
      Snapshot(Absent, <<MsgDict(TParis), MsgDict(TWhy)>>, "idle"),
      Snapshot(Absent, <<MsgStr(TSpecify)>>, "idle"),
      Snapshot(Absent, <<MsgNoContent>>, "busy"),
      Snapshot(Absent, << >>, "idle") }


\* messages[-1], then content by the shape of the message
LastContent(messages) ==
    LET last_message == messages[Len(messages)]
    IN  IF last_message.shape = "dict_nocontent" THEN TEmpty
        ELSE last_message.content

\* the heuristic without lower(): it misses "CLARIFY" and "Specify"
LooksLikeQuestionCased(content) ==
    /\ content # TEmpty
    /\ \/ Contains(content, QMark)
       \/ Contains(content, Clarify)
       \/ Contains(content, Specify)

\* content and ('?' in content or 'clarify' in content.lower()
\*              or 'specify' in content.lower())
LooksLikeQuestion(content) ==
    /\ content # TEmpty
    /\ \/ Contains(content, QMark)
       \/ Contains(Lower(content), Clarify)
       \/ Contains(Lower(content), Specify)

Outcome(kind, text) == [kind |-> kind, text |-> text]

\* what the thread state a call fetched held: a final report (and with it a
\* last message that looks like a question) or none
Fetched(s) ==
    IF ~Truthy(s.final_report) THEN "no_report"
    ELSE IF s.messages # << >> /\ LooksLikeQuestion(LastContent(s.messages))
    THEN "report_and_question"
    ELSE "report"
NotFetched == "none"
\* no thread state was read
NoSnapshot == Snapshot(Absent, << >>, "unread")

\* the clarification heuristic tried before the report
ExtractClarificationFirst(s) ==
    IF s.messages # << >> /\ LooksLikeQuestion(LastContent(s.messages))
    THEN Outcome("clarification", LastContent(s.messages))
    ELSE IF Truthy(s.final_report) THEN Outcome("report", s.final_report.text)
    ELSE Outcome("no_result", TEmpty)

\* get_research_results, from the state response on: report first, then the
\* clarification heuristic, then nothing
ExtractResults(s) ==
    IF Truthy(s.final_report) THEN Outcome("report", s.final_report.text)
    ELSE IF s.messages # << >> /\ LooksLikeQuestion(LastContent(s.messages))
    THEN Outcome("clarification", LastContent(s.messages))
    ELSE Outcome("no_result", TEmpty)

\* the success branch without the clarification heuristic
ExtractWaitReportOnly(s) ==
    IF Truthy(s.final_report) THEN Outcome("report", s.final_report.text)
    ELSE Outcome("no_result", TEmpty)

\* wait_for_research_completion, success branch
ExtractWait(s) ==
    IF Truthy(s.final_report) THEN Outcome("report", s.final_report.text)
    ELSE IF s.messages # << >> /\ LooksLikeQuestion(LastContent(s.messages))
    THEN Outcome("clarification", LastContent(s.messages))
    ELSE Outcome("no_result", TEmpty)

\* get_research_by_thread_id: the same order, then the thread's own status
ExtractByThread(s) ==
    IF Truthy(s.final_report) THEN Outcome("report", s.final_report.text)
    ELSE IF s.messages # << >> /\ LooksLikeQuestion(LastContent(s.messages))
    THEN Outcome("clarification", LastContent(s.messages))
    ELSE IF s.status = "busy" THEN Outcome("in_progress", TEmpty)
    ELSE Outcome("no_result", TEmpty)

(***************************************************************************)
(* The remote engine.  An HTTP call raises ("exc"), answers with a         *)
(* non-success status ("http_err") or answers from the engine's state.     *)
(***************************************************************************)
Responses == {"exc", "http_err", "ok"}
\* POST /threads/{id}/runs may also answer 200 with a body without run_id
SubmitResponses == Responses \cup {"ok_norunid"}
\* GET /threads/{id}/state: a failure, or 200 with a snapshot
StateAnswer(code, body) == [code |-> code, body |-> body]
StateResponses ==
    {StateAnswer(c, Snapshot(Absent, << >>, "idle")) : c \in {"exc", "http_err"}}
        \cup {StateAnswer("ok", s) : s \in Snapshots}

NonTerminal == {"pending", "running"}
FailedTerminal == {"error", "timeout", "interrupted"}
Terminal == {"success"} \cup FailedTerminal
RunStatuses == NonTerminal \cup Terminal

\* what the last operation returned: the outcome, the session and thread the
\* call acted on (the run, for a wait), the text, run status and elapsed
\* time it reports, which
\* ids the returned message names (the messages built from str(e) alone
\* name none), the sessions it lists, whether the call
\* fetched a thread state and which, the first terminal status a wait's polls saw, how
\* a status request of the wait failed, the remote calls the operation
\* issued, in order, and the session a continue without an id picked
Ret(op, kind, sid, thread, text, status, elapsed, carries) ==
    [op |-> op, kind |-> kind, sid |-> sid, thread |-> thread, run |-> NoId,
     text |-> text, status |-> status, elapsed |-> elapsed, carries |-> carries,
     listed |-> {}, fetched |-> NotFetched, state |-> NoSnapshot,
     saw |-> "None", failed |-> "none", calls |-> << >>, picked |-> NoSession]

NoRet == Ret("none", "none", NoSession, NoId, TEmpty, "None", -1, {})

\* get_assistant / get_or_create_assistant: the cached id, else the first
\* assistant of a search, else a created one.  nA assistants exist at the
\* engine, nC creations were issued; sr and cr are the engine's answers.
\* a remote call and how it was answered
Call(name, answer) == <<name, answer>>

Resolved(id, cache, nA, nC, calls) ==
    [id |-> id, cache |-> cache, nA |-> nA, nC |-> nC, calls |-> calls]

\* get_assistant without the test of the cache: it searches on every call
get_assistant_uncached(cache, nA, nC, sr, cr) ==
    LET search(answer) == <<Call("search", answer)>>
        create == <<Call("create", cr)>>
    IN  IF sr = "exc" THEN Resolved(NoId, cache, nA, nC, search("exc"))
        ELSE IF sr = "ok" /\ nA > 0 THEN Resolved(1, 1, nA, nC, search("found"))
        ELSE IF cr = "ok"
        THEN Resolved(nA + 1, nA + 1, nA + 1, nC + 1,
                      search(IF sr = "ok" THEN "empty" ELSE sr) \o create)
        ELSE Resolved(NoId, cache, nA, nC + 1,
                      search(IF sr = "ok" THEN "empty" ELSE sr) \o create)

\* get_assistant storing an id in the cache on the path on which the
\* creation failed and None is returned
get_assistant_caching_failure(cache, nA, nC, sr, cr) ==
    LET search(answer) == <<Call("search", answer)>>
        create == <<Call("create", cr)>>
    IN  IF cache # NoId THEN Resolved(cache, cache, nA, nC, << >>)
        ELSE IF sr = "exc" THEN Resolved(NoId, NoId, nA, nC, search("exc"))
        ELSE IF sr = "ok" /\ nA > 0 THEN Resolved(1, 1, nA, nC, search("found"))
        ELSE IF cr = "ok"
        THEN Resolved(nA + 1, nA + 1, nA + 1, nC + 1,
                      search(IF sr = "ok" THEN "empty" ELSE sr) \o create)
        ELSE Resolved(NoId, 1, nA, nC + 1,
                      search(IF sr = "ok" THEN "empty" ELSE sr) \o create)

get_assistant(cache, nA, nC, sr, cr) ==
    LET search(answer) == <<Call("search", answer)>>
        create == <<Call("create", cr)>>
    IN  IF cache # NoId THEN Resolved(cache, cache, nA, nC, << >>)
        ELSE IF sr = "exc" THEN Resolved(NoId, NoId, nA, nC, search("exc"))
        ELSE IF sr = "ok" /\ nA > 0 THEN Resolved(1, 1, nA, nC, search("found"))
        ELSE IF cr = "ok"
        THEN Resolved(nA + 1, nA + 1, nA + 1, nC + 1,
                      search(IF sr = "ok" THEN "empty" ELSE sr) \o create)
        ELSE Resolved(NoId, NoId, nA, nC + 1,
                      search(IF sr = "ok" THEN "empty" ELSE sr) \o create)

\* the resolutions the engine's answers allow in this state
GetAssistant ==
    {get_assistant(assistant_id, engAssistants, createCalls, sr, cr) :
        sr \in Responses, cr \in Responses}

\* the state when the resolver was not called
NotResolved == Resolved(NoId, assistant_id, engAssistants, createCalls, << >>)

\* create_thread handing out the newest existing thread again
create_thread_reusing(nT, tr) ==
    IF tr = "ok"
    THEN [id |-> IF nT = 0 THEN 1 ELSE nT, nT |-> IF nT = 0 THEN 1 ELSE nT,
          calls |-> <<Call("threads", tr)>>]
    ELSE [id |-> NoId, nT |-> nT, calls |-> <<Call("threads", tr)>>]

\* create_thread: the new thread's id, or None
create_thread(nT, tr) ==
    IF tr = "ok" THEN [id |-> nT + 1, nT |-> nT + 1, calls |-> <<Call("threads", tr)>>]
    ELSE [id |-> NoId, nT |-> nT, calls |-> <<Call("threads", tr)>>]

CreateThread == {create_thread(engThreads, tr) : tr \in Responses}

\* POST /threads/{thread}/runs at the engine: a 200 starts a run
NewRun(thread, assistant) ==
    [thread |-> thread, status |-> "pending", assistant |-> assistant]
SubmitRun(runs, thread, assistant, ur) ==
    IF ur \in {"ok", "ok_norunid"} THEN Append(runs, NewRun(thread, assistant))
    ELSE runs

\* a record stored without the run id of the submission
SessionWithoutRun(thread, run, q, status, now) ==
    [thread_id |-> thread, run_id |-> NoId, question |-> q, status |-> status,
     started_at |-> now]

\* the records of the registry
Session(thread, run, q, status, now) ==
    [thread_id |-> thread, run_id |-> run, question |-> q, status |-> status,
     started_at |-> now]
\* async_research_mcp_final.py stores no status
SessionFinal(thread, run, q, now) ==
    [thread_id |-> thread, run_id |-> run, question |-> q, started_at |-> now]

Put(f, k, v) == [x \in DOMAIN f \cup {k} |-> IF x = k THEN v ELSE f[x]]
Del(f, k) == [x \in DOMAIN f \ {k} |-> f[x]]

\* a call that waits for a run: its arguments and locals (state: the thread
\* state wait_for_completion read and went on polling after)
IdleTask ==
    [pc |-> "idle", op |-> "none", sid |-> NoSession, thread |-> NoId,
     run |-> NoId, start |-> 0, timeout |-> 0, wake |-> 0, wait_time |-> 0,
     blocking |-> FALSE, saw |-> "None", failed |-> "none",
     state |-> NoSnapshot]

Init ==
    /\ server \in Servers
    /\ clock = 0
    /\ assistant_id = NoId
    /\ active_sessions = << >>
    /\ current_thread_id = NoId
    /\ engAssistants \in 0..MaxAssistants
    /\ engThreads = 0
    /\ engRuns = << >>
    /\ tasks = [t \in TaskIds |-> IdleTask]
    /\ ret = NoRet
    /\ createCalls = 0
    /\ timedOut = {}

\* the process handles one request at a time: the last outcome is out
Ready == ret = NoRet

\* no call holds the event loop
Free == Ready /\ \A t \in TaskIds : ~(tasks[t].pc = "waiting" /\ tasks[t].blocking)

(***************************************************************************)
(* Environment: time passes, runs progress at the engine.                  *)
(***************************************************************************)
\* the code reads time only as the age of a session or of a wait, so time
\* is followed only while there is one, and in steps of the polling
\* interval (DeepResearchMCP and simple_research_mcp.py count their sleeps
\* and never read the time)
Tick ==
    /\ Ready
    /\ server \notin {"deep", "simple"}
    /\ active_sessions # << >> \/ \E t \in TaskIds : tasks[t].pc = "waiting"
    /\ clock + PollInterval <= MaxClock
    /\ clock' = clock + PollInterval
    /\ UNCHANGED <<server, assistant_id, active_sessions, current_thread_id,
                   engAssistants, engThreads, engRuns, tasks, ret,
                   createCalls, timedOut>>

EngineStep ==
    \E r \in DOMAIN engRuns, st \in RunStatuses \ {"pending"} :
        /\ Ready
        /\ engRuns[r].status \in NonTerminal
        /\ engRuns[r].status # st
        /\ engRuns' = [engRuns EXCEPT ![r].status = st]
        /\ UNCHANGED <<server, clock, assistant_id, active_sessions,
                       current_thread_id, engAssistants, engThreads, tasks,
                       ret, createCalls, timedOut>>

(***************************************************************************)
(* What a handler does to the process and the engine.                      *)
(***************************************************************************)
Step(r, ga, nT, runs, sessions) ==
    [ret |-> r, cache |-> ga.cache, nA |-> ga.nA, nC |-> ga.nC, nT |-> nT,
     runs |-> runs, sessions |-> sessions]

\* a handler that returns r and changes nothing
Only(r) == Step(r, NotResolved, engThreads, engRuns, active_sessions)

InBounds(s) ==
    /\ s.nT <= MaxThreads
    /\ Len(s.runs) <= MaxRuns
    /\ s.nC <= MaxCreateCalls
    /\ s.nA <= MaxAssistants

\* the sessions whose wait has ended timed out and whose run was not
\* replaced since
TimedOut(r, sessions) ==
    (CASE r.kind = "timed_out" -> timedOut \cup {r.sid}
       [] r.kind \in {"started", "continued"} -> timedOut \ {r.sid}
       [] OTHER -> timedOut) \cap DOMAIN sessions

Apply(s) ==
    /\ ret' = s.ret
    /\ timedOut' = TimedOut(s.ret, s.sessions)
    /\ assistant_id' = s.cache
    /\ engAssistants' = s.nA
    /\ createCalls' = s.nC
    /\ engThreads' = s.nT
    /\ engRuns' = s.runs
    /\ active_sessions' = s.sessions

NotFound(op, sid) == Ret(op, "not_found", sid, NoId, TEmpty, "None", -1, {})

(***************************************************************************)
(* src/async_research_mcp.py: the session tools.                           *)
(***************************************************************************)
\* start_research without the try around the submission: a failed request
\* or a body without run_id leaves the tool as an exception
start_research_unguarded(q, sid, h, ga, th, ur) ==
    LET docs == <<Call("docs", h)>>
        issued(kind) ==
            CASE kind = "engine_unavailable" -> docs
              [] kind = "assistant_failed" -> docs \o ga.calls
              [] kind = "thread_failed" -> docs \o ga.calls \o th.calls
              [] OTHER -> docs \o ga.calls \o th.calls \o <<Call("runs", ur)>>
        R(kind, s, t, c) ==
            [Ret("start_research", kind, s, t, TEmpty, "None", -1, c)
                EXCEPT !.calls = issued(kind)]
    IN  IF h = "exc"
        THEN Only(R("engine_unavailable", NoSession, NoId, {}))
        ELSE IF ga.id = NoId
        THEN Step(R("assistant_failed", NoSession, NoId, {}), ga, engThreads,
                  engRuns, active_sessions)
        ELSE IF th.id = NoId
        THEN Step(R("thread_failed", NoSession, NoId, {}), ga, engThreads,
                  engRuns, active_sessions)
        ELSE IF ur = "exc"
        THEN Step(R("raised", NoSession, th.id, {}), ga, th.nT, engRuns,
                  active_sessions)
        ELSE IF ur = "http_err"
        THEN Step(R("submit_failed", NoSession, th.id, {}), ga, th.nT, engRuns,
                  active_sessions)
        ELSE IF ur = "ok_norunid"
        THEN Step(R("raised", NoSession, th.id, {}), ga, th.nT,
                  SubmitRun(engRuns, th.id, ga.id, ur), active_sessions)
        ELSE Step(R("started", sid, th.id, {"session"}), ga, th.nT,
                  SubmitRun(engRuns, th.id, ga.id, ur),
                  Put(active_sessions, sid,
                      Session(th.id, Len(engRuns) + 1, q, "running", clock)))

\* start_research storing the session before it submits the run: a failed
\* submission leaves the session in the registry
start_research_registering(q, sid, h, ga, th, ur) ==
    LET docs == <<Call("docs", h)>>
        issued(kind) ==
            CASE kind = "engine_unavailable" -> docs
              [] kind = "assistant_failed" -> docs \o ga.calls
              [] kind = "thread_failed" -> docs \o ga.calls \o th.calls
              [] OTHER -> docs \o ga.calls \o th.calls \o <<Call("runs", ur)>>
        R(kind, s, t, c) ==
            [Ret("start_research", kind, s, t, TEmpty, "None", -1, c)
                EXCEPT !.calls = issued(kind)]
        stored == Put(active_sessions, sid,
                      Session(th.id, Len(engRuns) + 1, q, "running", clock))
    IN  IF h = "exc"
        THEN Only(R("engine_unavailable", NoSession, NoId, {}))
        ELSE IF ga.id = NoId
        THEN Step(R("assistant_failed", NoSession, NoId, {}), ga, engThreads,
                  engRuns, active_sessions)
        ELSE IF th.id = NoId
        THEN Step(R("thread_failed", NoSession, NoId, {}), ga, engThreads,
                  engRuns, active_sessions)
        ELSE IF ur = "exc"
        THEN Step(R("error", NoSession, th.id, {}), ga, th.nT, engRuns, stored)
        ELSE IF ur = "http_err"
        THEN Step(R("submit_failed", NoSession, th.id, {}), ga, th.nT, engRuns,
                  stored)
        ELSE IF ur = "ok_norunid"
        THEN Step(R("error", NoSession, th.id, {}), ga, th.nT,
                  SubmitRun(engRuns, th.id, ga.id, ur), stored)
        ELSE Step(R("started", sid, th.id, {"session"}), ga, th.nT,
                  SubmitRun(engRuns, th.id, ga.id, ur), stored)

\* start_research: h is the answer of GET /docs, ga the resolution of the
\* assistant, th the created thread, ur the answer to the run submission,
\* sid the generated session id
start_research(q, sid, h, ga, th, ur) ==
    LET docs == <<Call("docs", h)>>
        issued(kind) ==
            CASE kind = "engine_unavailable" -> docs
              [] kind = "assistant_failed" -> docs \o ga.calls
              [] kind = "thread_failed" -> docs \o ga.calls \o th.calls
              [] OTHER -> docs \o ga.calls \o th.calls \o <<Call("runs", ur)>>
        R(kind, s, t, c) ==
            [Ret("start_research", kind, s, t, TEmpty, "None", -1, c)
                EXCEPT !.calls = issued(kind)]
    IN  IF h = "exc"
        THEN Only(R("engine_unavailable", NoSession, NoId, {}))
        ELSE IF ga.id = NoId
        THEN Step(R("assistant_failed", NoSession, NoId, {}), ga, engThreads,
                  engRuns, active_sessions)
        ELSE IF th.id = NoId
        THEN Step(R("thread_failed", NoSession, NoId, {}), ga, engThreads,
                  engRuns, active_sessions)
        ELSE IF ur = "exc"
        THEN Step(R("error", NoSession, th.id, {}), ga, th.nT, engRuns,
                  active_sessions)
        ELSE IF ur = "http_err"
        THEN Step(R("submit_failed", NoSession, th.id, {}), ga, th.nT, engRuns,
                  active_sessions)
        ELSE IF ur = "ok_norunid"
        THEN Step(R("error", NoSession, th.id, {}), ga, th.nT,
                  SubmitRun(engRuns, th.id, ga.id, ur), active_sessions)
        ELSE Step(R("started", sid, th.id, {"session"}), ga, th.nT,
                  SubmitRun(engRuns, th.id, ga.id, ur),
                  Put(active_sessions, sid,
                      Session(th.id, Len(engRuns) + 1, q, "running", clock)))

\* str(uuid.uuid4())[:8]: any id, also one that is live; while the
\* registry is empty all ids are alike and the model takes the first
NewIds == IF active_sessions = << >> THEN {"s1"} ELSE SessionIds

StartResearch ==
    {start_research(q, sid, h, ga, th, ur) :
        q \in Questions, sid \in NewIds, h \in Responses,
        ga \in GetAssistant, th \in CreateThread, ur \in SubmitResponses}

A_start_research ==
    /\ server = "async"
    /\ Free
    /\ \E s \in StartResearch : InBounds(s) /\ Apply(s)
    /\ UNCHANGED <<server, clock, current_thread_id, tasks>>

\* int(time.time() - session["started_at"])
Elapsed(session) == clock - session.started_at

\* check_research_progress reporting a non-success answer of the status
\* request as an error, the way it reports a raised exception
check_research_progress_strict(sessions, sid, resp) ==
    LET session == sessions[sid]
        st == engRuns[session.run_id].status
        R(kind, status, el) ==
            [Ret("check_research_progress", kind, sid, session.thread_id,
                 TEmpty, status, el,
                 IF kind = "error_checking" THEN {} ELSE {"session"})
                EXCEPT !.calls = <<Call("status", resp)>>]
        Mark(status) == [sessions EXCEPT ![sid].status = status]
        S(r, ss) == Step(r, NotResolved, engThreads, engRuns, ss)
    IN  IF sid \notin DOMAIN sessions
        THEN S(NotFound("check_research_progress", sid), sessions)
        ELSE IF resp \in {"exc", "http_err"}
        THEN S(R("error_checking", "None", -1), sessions)
        ELSE IF st = "success" THEN S(R("completed", st, -1), Mark("completed"))
        ELSE IF st \in FailedTerminal THEN S(R("run_failed", st, -1), Mark("error"))
        ELSE IF st \in NonTerminal THEN S(R("in_progress", st, Elapsed(session)), sessions)
        ELSE S(R("could_not_get_status", "None", -1), sessions)

\* check_research_progress: resp is the answer of the run status request
check_research_progress(sessions, sid, resp) ==
    LET session == sessions[sid]
        st == engRuns[session.run_id].status
        R(kind, status, el) ==
            [Ret("check_research_progress", kind, sid, session.thread_id,
                 TEmpty, status, el,
                 IF kind = "error_checking" THEN {} ELSE {"session"})
                EXCEPT !.calls = <<Call("status", resp)>>]
        Mark(status) == [sessions EXCEPT ![sid].status = status]
        S(r, ss) == Step(r, NotResolved, engThreads, engRuns, ss)
    IN  IF sid \notin DOMAIN sessions
        THEN S(NotFound("check_research_progress", sid), sessions)
        ELSE IF resp = "exc" THEN S(R("error_checking", "None", -1), sessions)
        ELSE IF resp = "http_err"
        THEN S(R("could_not_get_status", "None", -1), sessions)
        ELSE IF st = "success" THEN S(R("completed", st, -1), Mark("completed"))
        ELSE IF st \in FailedTerminal THEN S(R("run_failed", st, -1), Mark("error"))
        ELSE IF st \in NonTerminal THEN S(R("in_progress", st, Elapsed(session)), sessions)
        ELSE S(R("could_not_get_status", "None", -1), sessions)

A_check_research_progress ==
    /\ server = "async"
    /\ Free
    /\ \E sid \in SessionIds, resp \in Responses :
        Apply(check_research_progress(active_sessions, sid, resp))
    /\ UNCHANGED <<server, clock, current_thread_id, tasks>>

\* get_research_results returning the report and keeping the session
get_research_results_keeping(sessions, sid, resp, sa) ==
    LET session == sessions[sid]
        st == engRuns[session.run_id].status
        issued(kind) ==
            IF resp = "exc" \/ kind = "not_complete" THEN <<Call("status", resp)>>
            ELSE <<Call("status", resp), Call("state", sa.code)>>
        R(kind, text, status, fetched) ==
            [Ret("get_research_results", kind, sid, session.thread_id, text,
                 status, -1, IF kind = "error_getting" THEN {} ELSE {"session"})
                EXCEPT !.fetched = fetched,
                        !.state = IF fetched = NotFetched THEN NoSnapshot ELSE sa.body,
                        !.calls = issued(kind)]
        S(r, ss) == Step(r, NotResolved, engThreads, engRuns, ss)
        out == ExtractResults(sa.body)
    IN  IF sid \notin DOMAIN sessions
        THEN S(NotFound("get_research_results", sid), sessions)
        ELSE IF resp = "exc"
        THEN S(R("error_getting", TEmpty, "None", NotFetched), sessions)
        ELSE IF resp = "ok" /\ st # "success"
        THEN S(R("not_complete", TEmpty, st, NotFetched), sessions)
        ELSE IF sa.code = "exc"
        THEN S(R("error_getting", TEmpty, "None", NotFetched), sessions)
        ELSE IF sa.code = "http_err"
        THEN S(R("could_not_retrieve", TEmpty, "None", NotFetched), sessions)
        ELSE IF out.kind = "report"
        THEN S(R("report", out.text, "None", Fetched(sa.body)), sessions)
        ELSE S(R(out.kind, out.text, "None", Fetched(sa.body)), sessions)

\* get_research_results: resp is the answer of the run status request, sa
\* the answer of the thread state request
get_research_results(sessions, sid, resp, sa) ==
    LET session == sessions[sid]
        st == engRuns[session.run_id].status
        issued(kind) ==
            IF resp = "exc" \/ kind = "not_complete" THEN <<Call("status", resp)>>
            ELSE <<Call("status", resp), Call("state", sa.code)>>
        R(kind, text, status, fetched) ==
            [Ret("get_research_results", kind, sid, session.thread_id, text,
                 status, -1, IF kind = "error_getting" THEN {} ELSE {"session"})
                EXCEPT !.fetched = fetched,
                        !.state = IF fetched = NotFetched THEN NoSnapshot ELSE sa.body,
                        !.calls = issued(kind)]
        S(r, ss) == Step(r, NotResolved, engThreads, engRuns, ss)
        out == ExtractResults(sa.body)
    IN  IF sid \notin DOMAIN sessions
        THEN S(NotFound("get_research_results", sid), sessions)
        ELSE IF resp = "exc"
        THEN S(R("error_getting", TEmpty, "None", NotFetched), sessions)
        ELSE IF resp = "ok" /\ st # "success"
        THEN S(R("not_complete", TEmpty, st, NotFetched), sessions)
        ELSE IF sa.code = "exc"
        THEN S(R("error_getting", TEmpty, "None", NotFetched), sessions)
        ELSE IF sa.code = "http_err"
        THEN S(R("could_not_retrieve", TEmpty, "None", NotFetched), sessions)
        ELSE IF out.kind = "report"
        THEN S(R("report", out.text, "None", Fetched(sa.body)), Del(sessions, sid))
        ELSE S(R(out.kind, out.text, "None", Fetched(sa.body)), sessions)

A_get_research_results ==
    /\ server = "async"
    /\ Free
    /\ \E s \in {get_research_results(active_sessions, sid, resp, sa) :
                    sid \in SessionIds, resp \in Responses, sa \in StateResponses} :
        Apply(s)
    /\ UNCHANGED <<server, clock, current_thread_id, tasks>>

\* continue_research submitting a second time when the submission was
\* answered with a non-success status
continue_research_retrying(sid, ga, ur) ==
    LET session == active_sessions[sid]
        issued(kind) ==
            IF kind = "assistant_failed" THEN ga.calls
            ELSE IF ur = "http_err"
            THEN ga.calls \o <<Call("runs", ur), Call("runs", "ok")>>
            ELSE ga.calls \o <<Call("runs", ur)>>
        R(kind, c) ==
            [Ret("continue_research", kind, sid, session.thread_id, TEmpty,
                 "None", -1, c) EXCEPT !.calls = issued(kind)]
    IN  IF sid \notin DOMAIN active_sessions
        THEN Only(NotFound("continue_research", sid))
        ELSE IF ga.id = NoId
        THEN Step(R("assistant_failed", {}), ga, engThreads, engRuns, active_sessions)
        ELSE IF ur = "exc"
        THEN Step(R("error_continuing", {}), ga, engThreads, engRuns, active_sessions)
        ELSE IF ur = "ok_norunid"
        THEN Step(R("error_continuing", {}), ga, engThreads,
                  SubmitRun(engRuns, session.thread_id, ga.id, ur), active_sessions)
        ELSE Step(R("continued", {"session"}), ga, engThreads,
                  SubmitRun(engRuns, session.thread_id, ga.id, "ok"),
                  [active_sessions EXCEPT ![sid].run_id = Len(engRuns) + 1,
                                          ![sid].status = "running",
                                          ![sid].started_at = clock])

\* continue_research: a new run on the session's thread replaces the
\* session's run
\* continue_research replacing the run and leaving the session's status as
\* it was
continue_research_keeping_status(sid, ga, ur) ==
    LET session == active_sessions[sid]
        issued(kind) ==
            IF kind = "assistant_failed" THEN ga.calls
            ELSE ga.calls \o <<Call("runs", ur)>>
        R(kind, c) ==
            [Ret("continue_research", kind, sid, session.thread_id, TEmpty,
                 "None", -1, c) EXCEPT !.calls = issued(kind)]
    IN  IF sid \notin DOMAIN active_sessions
        THEN Only(NotFound("continue_research", sid))
        ELSE IF ga.id = NoId
        THEN Step(R("assistant_failed", {}), ga, engThreads, engRuns, active_sessions)
        ELSE IF ur = "exc"
        THEN Step(R("error_continuing", {}), ga, engThreads, engRuns, active_sessions)
        ELSE IF ur = "http_err"
        THEN Step(R("continue_failed", {}), ga, engThreads, engRuns, active_sessions)
        ELSE IF ur = "ok_norunid"
        THEN Step(R("error_continuing", {}), ga, engThreads,
                  SubmitRun(engRuns, session.thread_id, ga.id, ur), active_sessions)
        ELSE Step(R("continued", {"session"}), ga, engThreads,
                  SubmitRun(engRuns, session.thread_id, ga.id, ur),
                  [active_sessions EXCEPT ![sid].run_id = Len(engRuns) + 1,
                                          ![sid].started_at = clock])

continue_research(sid, ga, ur) ==
    LET session == active_sessions[sid]
        issued(kind) ==
            IF kind = "assistant_failed" THEN ga.calls
            ELSE ga.calls \o <<Call("runs", ur)>>
        R(kind, c) ==
            [Ret("continue_research", kind, sid, session.thread_id, TEmpty,
                 "None", -1, c) EXCEPT !.calls = issued(kind)]
    IN  IF sid \notin DOMAIN active_sessions
        THEN Only(NotFound("continue_research", sid))
        ELSE IF ga.id = NoId
        THEN Step(R("assistant_failed", {}), ga, engThreads, engRuns, active_sessions)
        ELSE IF ur = "exc"
        THEN Step(R("error_continuing", {}), ga, engThreads, engRuns, active_sessions)
        ELSE IF ur = "http_err"
        THEN Step(R("continue_failed", {}), ga, engThreads, engRuns, active_sessions)
        ELSE IF ur = "ok_norunid"
        THEN Step(R("error_continuing", {}), ga, engThreads,
                  SubmitRun(engRuns, session.thread_id, ga.id, ur), active_sessions)
        ELSE Step(R("continued", {"session"}), ga, engThreads,
                  SubmitRun(engRuns, session.thread_id, ga.id, ur),
                  [active_sessions EXCEPT ![sid].run_id = Len(engRuns) + 1,
                                          ![sid].status = "running",
                                          ![sid].started_at = clock])

ContinueResearch(sid) ==
    {continue_research(sid, ga, ur) : ga \in GetAssistant, ur \in SubmitResponses}

A_continue_research ==
    /\ server = "async"
    /\ Free
    /\ \E sid \in SessionIds : \E s \in ContinueResearch(sid) :
        InBounds(s) /\ Apply(s)
    /\ UNCHANGED <<server, clock, current_thread_id, tasks>>

\* list_active_sessions of both registries: the ids it lists
list_active_sessions ==
    [Ret("list_active_sessions",
         IF active_sessions = << >> THEN "no_sessions" ELSE "listed",
         NoSession, NoId, TEmpty, "None", -1, {})
        EXCEPT !.listed = DOMAIN active_sessions]

List_active_sessions ==
    /\ server \in {"async", "final"}
    /\ Free
    /\ ret' = list_active_sessions
    /\ UNCHANGED <<server, clock, assistant_id, active_sessions,
                   current_thread_id, engAssistants, engThreads, engRuns,
                   tasks, createCalls, timedOut>>

(***************************************************************************)
(* Calls that wait for a run.  A turn of a waiter is one pass of its loop: *)
(* the deadline test, the poll, and then a return or the sleep.            *)
(***************************************************************************)
\* time.sleep blocks the process; await asyncio.sleep lets other calls in
Blocking == server \in {"async", "deep", "simple"}

NewTask(op, sid, thread, run, timeout) ==
    [pc |-> "waiting", op |-> op, sid |-> sid, thread |-> thread, run |-> run,
     start |-> clock, timeout |-> timeout, wake |-> clock, wait_time |-> 0,
     blocking |-> TRUE, saw |-> "None", failed |-> "none",
     state |-> NoSnapshot]

\* the terminal status a poll showed, if it is the first
Seen(task, obs) == IF task.saw = "None" /\ obs \in Terminal THEN obs ELSE task.saw

\* how the status requests of the wait have failed so far: one raised, or
\* one was answered with a non-success status
Failure(task, obs) ==
    IF obs = "exc" THEN "exc"
    ELSE IF obs = "http_err" /\ task.failed = "none" THEN "http_err"
    ELSE task.failed

Turn(task, r, sessions) == [task |-> task, ret |-> r, sessions |-> sessions]

\* the call returns r
Return(task, r, obs, sessions) ==
    Turn(IdleTask,
         [r EXCEPT !.saw = Seen(task, obs), !.run = task.run,
                   !.failed = Failure(task, obs),
                   !.state = IF r.state = NoSnapshot THEN task.state ELSE r.state],
         sessions)

\* the call sleeps PollInterval seconds and comes back to its loop
Sleep(task, obs, sessions) ==
    Turn([task EXCEPT !.wake = clock + PollInterval, !.blocking = Blocking,
                      !.saw = Seen(task, obs), !.failed = Failure(task, obs)],
         ret, sessions)

\* what a run status request shows
Observed(run, resp) == IF resp = "ok" THEN engRuns[run].status ELSE resp

\* the loop of research_question and continue_research_with_clarification
\* of async_research_mcp.py: check_research_progress, then
\* get_research_results once it says completed
sync_wait(task, resp, resp2, sa) ==
    LET sid == task.sid
        progress == check_research_progress(active_sessions, sid, resp)
        results == get_research_results(progress.sessions, sid, resp2, sa)
        obs == IF sid \in DOMAIN active_sessions
               THEN Observed(active_sessions[sid].run_id, resp) ELSE "None"
        timed_out == Ret(task.op, "timed_out", sid, task.thread, TEmpty, "None", -1,
                         {"session"})
    IN  IF ~(clock - task.start < task.timeout)
        THEN Return(task, timed_out, "None", active_sessions)
        ELSE IF progress.ret.kind = "completed"
        THEN Return(task, [results.ret EXCEPT !.op = task.op, !.calls = << >>], obs,
                    results.sessions)
        ELSE IF progress.ret.kind \in {"not_found", "error_checking", "run_failed"}
        THEN Return(task, [progress.ret EXCEPT !.op = task.op, !.calls = << >>], obs,
                    progress.sessions)
        ELSE Sleep(task, obs, progress.sessions)

\* wait_for_research_completion swallowing an exception of the status
\* request and polling again after the sleep
wait_retrying_raised(task, resp, sa) ==
    LET R(kind, text, status, fetched) ==
            [Ret(task.op, kind, task.sid, task.thread, text, status, -1, {"thread"})
                EXCEPT !.fetched = fetched,
                        !.state = IF fetched = NotFetched THEN NoSnapshot ELSE sa.body]
        obs == Observed(task.run, resp)
        out == ExtractWait(sa.body)
    IN  IF ~(clock - task.start < task.timeout)
        THEN Return(task, R("timed_out", TEmpty, "None", NotFetched), "None",
                    active_sessions)
        ELSE IF resp \in {"exc", "http_err"} THEN Sleep(task, obs, active_sessions)
        ELSE IF obs = "success"
        THEN IF sa.code = "exc"
             THEN Return(task, R("wait_error", TEmpty, "None", NotFetched), obs,
                         active_sessions)
             ELSE IF sa.code = "http_err" THEN Sleep(task, obs, active_sessions)
             ELSE IF out.kind = "report"
             THEN Return(task, R("report", out.text, obs, Fetched(sa.body)), obs,
                         IF task.sid \in DOMAIN active_sessions
                         THEN Del(active_sessions, task.sid) ELSE active_sessions)
             ELSE Return(task, R(out.kind, out.text, obs, Fetched(sa.body)), obs,
                         active_sessions)
        ELSE IF obs \in FailedTerminal
        THEN Return(task, R("run_failed", TEmpty, obs, NotFetched), obs,
                    active_sessions)
        ELSE Sleep(task, obs, active_sessions)

\* wait_for_research_completion of async_research_mcp_final.py
wait_for_research_completion(task, resp, sa) ==
    LET R(kind, text, status, fetched) ==
            [Ret(task.op, kind, task.sid, task.thread, text, status, -1, {"thread"})
                EXCEPT !.fetched = fetched,
                        !.state = IF fetched = NotFetched THEN NoSnapshot ELSE sa.body]
        obs == Observed(task.run, resp)
        out == ExtractWait(sa.body)
    IN  IF ~(clock - task.start < task.timeout)
        THEN Return(task, R("timed_out", TEmpty, "None", NotFetched), "None",
                    active_sessions)
        ELSE IF resp = "exc"
        THEN Return(task, R("wait_error", TEmpty, "None", NotFetched), obs,
                    active_sessions)
        ELSE IF resp = "http_err" THEN Sleep(task, obs, active_sessions)
        ELSE IF obs = "success"
        THEN IF sa.code = "exc"
             THEN Return(task, R("wait_error", TEmpty, "None", NotFetched), obs,
                         active_sessions)
             ELSE IF sa.code = "http_err" THEN Sleep(task, obs, active_sessions)
             ELSE IF out.kind = "report"
             THEN Return(task, R("report", out.text, obs, Fetched(sa.body)), obs,
                         IF task.sid \in DOMAIN active_sessions
                         THEN Del(active_sessions, task.sid) ELSE active_sessions)
             ELSE Return(task, R(out.kind, out.text, obs, Fetched(sa.body)), obs,
                         active_sessions)
        ELSE IF obs \in FailedTerminal
        THEN Return(task, R("run_failed", TEmpty, obs, NotFetched), obs,
                    active_sessions)
        ELSE Sleep(task, obs, active_sessions)

\* poll_for_completion of async_research_mcp.py
poll_for_completion(task, resp, sa) ==
    LET R(kind, status, fetched) ==
            [Ret(task.op, kind, NoSession, task.thread, TEmpty, status, -1, {})
                EXCEPT !.fetched = fetched,
                        !.state = IF fetched = NotFetched THEN NoSnapshot ELSE sa.body]
        obs == Observed(task.run, resp)
    IN  IF ~(clock - task.start < task.timeout)
        THEN Return(task, R("timed_out", "None", NotFetched), "None", active_sessions)
        ELSE IF resp = "exc"
        THEN Return(task, R("poll_error", "None", NotFetched), obs, active_sessions)
        ELSE IF resp = "http_err" THEN Sleep(task, obs, active_sessions)
        ELSE IF obs = "success"
        THEN IF sa.code = "exc"
             THEN Return(task, R("poll_error", "None", NotFetched), obs,
                         active_sessions)
             ELSE IF sa.code = "http_err" THEN Sleep(task, obs, active_sessions)
             ELSE Return(task, R("success", obs, Fetched(sa.body)), obs,
                         active_sessions)
        ELSE IF obs \in FailedTerminal
        THEN Return(task, R("run_failed", obs, NotFetched), obs, active_sessions)
        ELSE Sleep(task, obs, active_sessions)

\* wait_for_completion polling again, without counting the sleep, after a
\* status request answered with a non-success status
wait_for_completion_uncounted(task, resp, sa) ==
    LET R(kind, text, status, fetched) ==
            [Ret(task.op, kind, NoSession, task.thread, text, status, -1, {})
                EXCEPT !.fetched = fetched,
                        !.state = IF fetched = NotFetched THEN NoSnapshot ELSE sa.body]
        obs == Observed(task.run, resp)
        final_report == sa.body.final_report
        again == Turn([task EXCEPT !.wait_time = @ + PollInterval,
                                   !.saw = Seen(task, obs),
                                   !.failed = Failure(task, obs)],
                      ret, active_sessions)
    IN  IF ~(task.wait_time < task.timeout)
        THEN Return(task, R("timed_out", TEmpty, "None", NotFetched), "None",
                    active_sessions)
        ELSE IF resp = "exc"
        THEN Return(task, R("poll_error", TEmpty, "None", NotFetched), obs,
                    active_sessions)
        ELSE IF resp = "http_err"
        THEN Turn([task EXCEPT !.failed = Failure(task, obs)], ret, active_sessions)
        ELSE IF obs = "success"
        THEN IF sa.code = "exc"
             THEN Return(task, R("poll_error", TEmpty, "None", NotFetched), obs,
                         active_sessions)
             ELSE IF sa.code = "ok" /\ Truthy(final_report)
             THEN Return(task, R("report", final_report.text, obs, Fetched(sa.body)),
                         obs, active_sessions)
             ELSE IF sa.code = "ok"
             THEN Turn([again.task EXCEPT !.state = sa.body], ret, active_sessions)
             ELSE again
        ELSE IF obs = "error"
        THEN Return(task, R("run_failed", TEmpty, "None", NotFetched), obs,
                    active_sessions)
        ELSE again

\* DeepResearchMCP.wait_for_completion, and what conduct_research makes of
\* its result.  The loop counts its sleeps in wait_time and never reads the
\* time, so the sleep is part of the turn.  A None result becomes the one
\* message "No final report was generated", which names no run status.
wait_for_completion(task, resp, sa) ==
    LET R(kind, text, status, fetched) ==
            [Ret(task.op, kind, NoSession, task.thread, text, status, -1, {})
                EXCEPT !.fetched = fetched,
                        !.state = IF fetched = NotFetched THEN NoSnapshot ELSE sa.body]
        obs == Observed(task.run, resp)
        final_report == sa.body.final_report
        again == Turn([task EXCEPT !.wait_time = @ + PollInterval,
                                   !.saw = Seen(task, obs),
                                   !.failed = Failure(task, obs)],
                      ret, active_sessions)
    IN  IF ~(task.wait_time < task.timeout)
        THEN Return(task, R("timed_out", TEmpty, "None", NotFetched), "None",
                    active_sessions)
        ELSE IF resp = "exc"
        THEN Return(task, R("poll_error", TEmpty, "None", NotFetched), obs,
                    active_sessions)
        ELSE IF resp = "http_err" THEN again
        ELSE IF obs = "success"
        THEN IF sa.code = "exc"
             THEN Return(task, R("poll_error", TEmpty, "None", NotFetched), obs,
                         active_sessions)
             ELSE IF sa.code = "ok" /\ Truthy(final_report)
             THEN Return(task, R("report", final_report.text, obs, Fetched(sa.body)),
                         obs, active_sessions)
             ELSE IF sa.code = "ok"
             THEN Turn([again.task EXCEPT !.state = sa.body], ret, active_sessions)
             ELSE again
        ELSE IF obs = "error"
        THEN Return(task, R("run_failed", TEmpty, "None", NotFetched), obs,
                    active_sessions)
        ELSE again

\* the loop of research_question of simple_research_mcp.py answering with
\* the report as soon as a poll shows the run running
simple_wait_eager(task, resp, sa) ==
    LET R(kind, text, status, fetched) ==
            [Ret(task.op, kind, NoSession, task.thread, text, status, -1, {})
                EXCEPT !.fetched = fetched,
                        !.state = IF fetched = NotFetched THEN NoSnapshot ELSE sa.body]
        obs == Observed(task.run, resp)
        final_report == sa.body.final_report
        again == Turn([task EXCEPT !.wait_time = @ + 1,
                                   !.saw = Seen(task, obs),
                                   !.failed = Failure(task, obs)],
                      ret, active_sessions)
    IN  IF ~(task.wait_time < task.timeout)
        THEN Return(task, R("timed_out", TEmpty, "None", NotFetched), "None",
                    active_sessions)
        ELSE IF resp = "exc"
        THEN Return(task, R("poll_error", TEmpty, "None", NotFetched), obs,
                    active_sessions)
        ELSE IF resp = "http_err" THEN again
        ELSE IF obs \in {"success", "running"}
        THEN IF sa.code = "exc"
             THEN Return(task, R("poll_error", TEmpty, "None", NotFetched), obs,
                         active_sessions)
             ELSE IF sa.code = "ok" /\ Truthy(final_report)
             THEN Return(task, R("report", final_report.text, obs, Fetched(sa.body)),
                         obs, active_sessions)
             ELSE again
        ELSE IF obs \in FailedTerminal
        THEN Return(task, R("run_failed", TEmpty, obs, NotFetched), obs,
                    active_sessions)
        ELSE again

\* the loop of research_question of simple_research_mcp.py: for _ in
\* range(60), the sleep, the poll; wait_time counts the passes.  Only a
\* non-empty final report is a result; any exception ends the call.
simple_wait(task, resp, sa) ==
    LET R(kind, text, status, fetched) ==
            [Ret(task.op, kind, NoSession, task.thread, text, status, -1, {})
                EXCEPT !.fetched = fetched,
                        !.state = IF fetched = NotFetched THEN NoSnapshot ELSE sa.body]
        obs == Observed(task.run, resp)
        final_report == sa.body.final_report
        again == Turn([task EXCEPT !.wait_time = @ + 1,
                                   !.saw = Seen(task, obs),
                                   !.failed = Failure(task, obs)],
                      ret, active_sessions)
    IN  IF ~(task.wait_time < task.timeout)
        THEN Return(task, R("timed_out", TEmpty, "None", NotFetched), "None",
                    active_sessions)
        ELSE IF resp = "exc"
        THEN Return(task, R("poll_error", TEmpty, "None", NotFetched), obs,
                    active_sessions)
        ELSE IF resp = "http_err" THEN again
        ELSE IF obs = "success"
        THEN IF sa.code = "exc"
             THEN Return(task, R("poll_error", TEmpty, "None", NotFetched), obs,
                         active_sessions)
             ELSE IF sa.code = "ok" /\ Truthy(final_report)
             THEN Return(task, R("report", final_report.text, obs, Fetched(sa.body)),
                         obs, active_sessions)
             ELSE again
        ELSE IF obs \in FailedTerminal
        THEN Return(task, R("run_failed", TEmpty, obs, NotFetched), obs,
                    active_sessions)
        ELSE again

\* the turns the engine's answers allow
WaitTurns(task) ==
    CASE server = "async" ->
            {sync_wait(task, resp, resp2, sa) :
                resp \in Responses, resp2 \in Responses, sa \in StateResponses}
      [] server = "final" ->
            {wait_for_research_completion(task, resp, sa) :
                resp \in Responses, sa \in StateResponses}
      [] server = "async_poll" ->
            {poll_for_completion(task, resp, sa) :
                resp \in Responses, sa \in StateResponses}
      [] server = "deep" ->
            {wait_for_completion(task, resp, sa) :
                resp \in Responses, sa \in StateResponses}
      [] server = "simple" ->
            {simple_wait(task, resp, sa) :
                resp \in Responses, sa \in StateResponses}

Wait ==
    \E t \in TaskIds :
        /\ Ready
        /\ tasks[t].pc = "waiting"
        /\ tasks[t].wake <= clock
        /\ Free \/ tasks[t].blocking
        /\ \E turn \in WaitTurns(tasks[t]) :
            /\ tasks' = [tasks EXCEPT ![t] = turn.task]
            /\ ret' = turn.ret
            /\ active_sessions' = turn.sessions
            /\ timedOut' = TimedOut(turn.ret, turn.sessions)
        /\ UNCHANGED <<server, clock, assistant_id, current_thread_id,
                       engAssistants, engThreads, engRuns, createCalls>>

\* the lowest free slot for a call that waits
FreeSlot(t) ==
    /\ tasks[t].pc = "idle"
    /\ \A u \in TaskIds : u < t => tasks[u].pc # "idle"
    /\ server = "final" \/ t = 1

\* research_question of async_research_mcp.py: start_research, then the loop
A_research_question ==
    /\ server = "async"
    /\ Free
    /\ \E s \in StartResearch :
        /\ InBounds(s)
        /\ Apply(s)
        /\ tasks' = IF s.ret.kind = "started"
                    THEN [tasks EXCEPT ![1] =
                            NewTask("research_question", s.ret.sid, s.ret.thread,
                                    s.sessions[s.ret.sid].run_id, SyncTimeout)]
                    ELSE tasks
    /\ UNCHANGED <<server, clock, current_thread_id>>

\* min instead of max: a least recent session
Oldest(sessions) ==
    {sid \in DOMAIN sessions :
        \A o \in DOMAIN sessions : sessions[sid].started_at <= sessions[o].started_at}

\* max(active_sessions.keys(), key=started_at): a most recent session
Latest(sessions) ==
    {sid \in DOMAIN sessions :
        \A o \in DOMAIN sessions : sessions[o].started_at <= sessions[sid].started_at}

\* continue_research_with_clarification of async_research_mcp.py
A_continue_research_with_clarification ==
    /\ server = "async"
    /\ Free
    /\ IF active_sessions = << >>
       THEN /\ ret' = Ret("continue_research_with_clarification", "no_sessions",
                          NoSession, NoId, TEmpty, "None", -1, {})
            /\ UNCHANGED <<assistant_id, active_sessions, engAssistants,
                           engThreads, engRuns, tasks, createCalls, timedOut>>
       ELSE \E sid \in Latest(active_sessions) :
            \E s \in {[c EXCEPT !.ret.picked = sid] : c \in ContinueResearch(sid)} :
            /\ InBounds(s)
            /\ Apply(s)
            /\ tasks' = IF s.ret.kind = "continued"
                        THEN [tasks EXCEPT ![1] =
                                NewTask("continue_research_with_clarification", sid,
                                        s.ret.thread, s.sessions[sid].run_id,
                                        SyncTimeout)]
                        ELSE tasks
    /\ UNCHANGED <<server, clock, current_thread_id>>

(***************************************************************************)
(* poll_for_completion awaited on a run some caller submitted.             *)
(***************************************************************************)
A_run_submitted ==
    /\ Ready
    /\ server = "async_poll"
    /\ engThreads < MaxThreads
    /\ Len(engRuns) < MaxRuns
    /\ engThreads' = engThreads + 1
    /\ engRuns' = Append(engRuns, NewRun(engThreads + 1, NoId))
    /\ UNCHANGED <<server, clock, assistant_id, active_sessions,
                   current_thread_id, engAssistants, tasks, ret, createCalls,
                   timedOut>>

A_poll_for_completion ==
    /\ Ready
    /\ server = "async_poll"
    /\ \E t \in TaskIds, run \in DOMAIN engRuns, max_wait \in Timeouts :
        /\ FreeSlot(t)
        /\ tasks' = [tasks EXCEPT ![t] =
                        [NewTask("poll_for_completion", NoSession,
                                 engRuns[run].thread, run, max_wait)
                            EXCEPT !.blocking = FALSE]]
    /\ ret' = NoRet
    /\ UNCHANGED <<server, clock, assistant_id, active_sessions,
                   current_thread_id, engAssistants, engThreads, engRuns,
                   createCalls, timedOut>>

(***************************************************************************)
(* src/async_research_mcp_final.py                                         *)
(***************************************************************************)
\* research_question up to the call of wait_for_research_completion
research_question(q, sid, h, ga, th, ur) ==
    LET docs == <<Call("docs", h)>>
        issued(kind) ==
            CASE kind = "engine_unavailable" -> docs
              [] kind = "assistant_failed" -> docs \o ga.calls
              [] kind = "thread_failed" -> docs \o ga.calls \o th.calls
              [] OTHER -> docs \o ga.calls \o th.calls \o <<Call("runs", ur)>>
        R(kind, s, t, c) ==
            [Ret("research_question", kind, s, t, TEmpty, "None", -1, c)
                EXCEPT !.calls = issued(kind)]
    IN  IF h = "exc"
        THEN Only(R("engine_unavailable", NoSession, NoId, {}))
        ELSE IF ga.id = NoId
        THEN Step(R("assistant_failed", NoSession, NoId, {}), ga, engThreads,
                  engRuns, active_sessions)
        ELSE IF th.id = NoId
        THEN Step(R("thread_failed", NoSession, NoId, {}), ga, engThreads,
                  engRuns, active_sessions)
        ELSE IF ur = "exc"
        THEN Step(R("error", NoSession, th.id, {"thread"}), ga, th.nT, engRuns,
                  active_sessions)
        ELSE IF ur = "http_err"
        THEN Step(R("submit_failed", NoSession, th.id, {}), ga, th.nT, engRuns,
                  active_sessions)
        ELSE IF ur = "ok_norunid"
        THEN Step(R("error", NoSession, th.id, {"thread"}), ga, th.nT,
                  SubmitRun(engRuns, th.id, ga.id, ur), active_sessions)
        ELSE Step(R("started", sid, th.id, {}), ga, th.nT,
                  SubmitRun(engRuns, th.id, ga.id, ur),
                  Put(active_sessions, sid,
                      SessionFinal(th.id, Len(engRuns) + 1, q, clock)))

ResearchQuestion ==
    {research_question(q, sid, h, ga, th, ur) :
        q \in Questions, sid \in NewIds, h \in Responses,
        ga \in GetAssistant, th \in CreateThread, ur \in SubmitResponses}

F_research_question ==
    /\ server = "final"
    /\ Free
    /\ \E t \in TaskIds, timeout \in Timeouts : \E s \in ResearchQuestion :
        /\ FreeSlot(t)
        /\ InBounds(s)
        /\ Apply(s)
        /\ tasks' = IF s.ret.kind = "started"
                    THEN [tasks EXCEPT ![t] =
                            NewTask("wait_for_research_completion", s.ret.sid,
                                    s.ret.thread, s.sessions[s.ret.sid].run_id,
                                    timeout)]
                    ELSE tasks
    /\ UNCHANGED <<server, clock, current_thread_id>>

\* continue_research_with_clarification of async_research_mcp_final.py on
\* the thread target_thread_id
continue_research_with_clarification(target_thread_id, ga, ur) ==
    LET issued(kind) ==
            IF kind = "assistant_failed" THEN ga.calls
            ELSE ga.calls \o <<Call("runs", ur)>>
        R(kind, c) ==
            [Ret("continue_research_with_clarification", kind, NoSession,
                 target_thread_id, TEmpty, "None", -1, c)
                EXCEPT !.calls = issued(kind)]
    IN  IF ga.id = NoId
        THEN Step(R("assistant_failed", {}), ga, engThreads, engRuns, active_sessions)
        ELSE IF ur = "exc"
        THEN Step(R("error_continuing", {}), ga, engThreads, engRuns, active_sessions)
        ELSE IF ur = "http_err"
        THEN Step(R("continue_failed", {}), ga, engThreads, engRuns, active_sessions)
        ELSE IF ur = "ok_norunid"
        THEN Step(R("error_continuing", {}), ga, engThreads,
                  SubmitRun(engRuns, target_thread_id, ga.id, ur), active_sessions)
        ELSE Step(R("continued", {"thread"}), ga, engThreads,
                  SubmitRun(engRuns, target_thread_id, ga.id, ur), active_sessions)

\* the thread_id argument, if one is given
TargetThreads == 1..engThreads

F_continue_research_with_clarification ==
    /\ server = "final"
    /\ Free
    /\ \/ /\ active_sessions = << >>
          /\ ret' = Ret("continue_research_with_clarification", "no_sessions",
                        NoSession, NoId, TEmpty, "None", -1, {})
          /\ UNCHANGED <<assistant_id, active_sessions, engAssistants,
                         engThreads, engRuns, createCalls, timedOut>>
       \/ \E thread \in TargetThreads :
            \E s \in {continue_research_with_clarification(thread, ga, ur) :
                        ga \in GetAssistant, ur \in SubmitResponses} :
                InBounds(s) /\ Apply(s)
       \/ \E sid \in Latest(active_sessions) :
            \E s \in {[c EXCEPT !.ret.picked = sid] :
                        c \in {continue_research_with_clarification(
                                    active_sessions[sid].thread_id, ga, ur) :
                                ga \in GetAssistant, ur \in SubmitResponses}} :
                InBounds(s) /\ Apply(s)
    /\ UNCHANGED <<server, clock, current_thread_id, tasks>>

\* get_research_by_thread_id looking the thread up in the registry first
get_research_by_thread_id_registered(thread_id, sa) ==
    LET R(kind, text, fetched) ==
            [Ret("get_research_by_thread_id", kind, NoSession, thread_id, text,
                 "None", -1, {"thread"}) EXCEPT !.fetched = fetched,
                        !.state = IF fetched = NotFetched THEN NoSnapshot ELSE sa.body]
        out == ExtractByThread(sa.body)
    IN  IF \A sid \in DOMAIN active_sessions :
                active_sessions[sid].thread_id # thread_id
        THEN R("not_found", TEmpty, NotFetched)
        ELSE IF sa.code = "exc" THEN R("error_retrieving", TEmpty, NotFetched)
        ELSE IF sa.code = "http_err" THEN R("could_not_access", TEmpty, NotFetched)
        ELSE R(out.kind, out.text, Fetched(sa.body))

\* get_research_by_thread_id: reads the thread's state, nothing else
get_research_by_thread_id(thread_id, sa) ==
    LET R(kind, text, fetched) ==
            [Ret("get_research_by_thread_id", kind, NoSession, thread_id, text,
                 "None", -1, {"thread"}) EXCEPT !.fetched = fetched,
                        !.state = IF fetched = NotFetched THEN NoSnapshot ELSE sa.body]
        out == ExtractByThread(sa.body)
    IN  IF sa.code = "exc" THEN R("error_retrieving", TEmpty, NotFetched)
        ELSE IF sa.code = "http_err" THEN R("could_not_access", TEmpty, NotFetched)
        ELSE R(out.kind, out.text, Fetched(sa.body))

F_get_research_by_thread_id ==
    /\ server = "final"
    /\ Free
    /\ \E thread_id \in 1..engThreads, sa \in StateResponses :
        ret' = get_research_by_thread_id(thread_id, sa)
    /\ UNCHANGED <<server, clock, assistant_id, active_sessions,
                   current_thread_id, engAssistants, engThreads, engRuns,
                   tasks, createCalls, timedOut>>

(***************************************************************************)
(* src/mcp_deep_research_server.py: DeepResearchMCP                        *)
(***************************************************************************)
\* conduct_research up to the call of wait_for_completion, as the tool
\* handler reports it.  The result carries the new current_thread_id.
conduct_research(new_session, h, th, ga, ur) ==
    LET fresh == new_session \/ current_thread_id = NoId
        docs == <<Call("docs", h)>>
        threads == IF fresh THEN th.calls ELSE << >>
        issued(kind) ==
            CASE kind = "engine_unavailable" -> docs
              [] kind = "thread_failed" -> docs \o threads
              [] kind = "assistant_failed" -> docs \o threads \o ga.calls
              [] OTHER -> docs \o threads \o ga.calls \o <<Call("runs", ur)>>
        R(kind, t) ==
            [Ret("conduct_research", kind, NoSession, t, TEmpty, "None", -1, {})
                EXCEPT !.calls = issued(kind)]
        thread == IF fresh THEN th.id ELSE current_thread_id
        nT == IF fresh THEN th.nT ELSE engThreads
    IN  IF h # "ok"
        THEN [step |-> Only(R("engine_unavailable", NoId)),
              thread |-> current_thread_id]
        ELSE IF thread = NoId
        THEN [step |-> Only(R("thread_failed", NoId)), thread |-> thread]
        ELSE IF ga.id = NoId
        THEN [step |-> Step(R("assistant_failed", thread), ga, nT, engRuns,
                            active_sessions),
              thread |-> thread]
        ELSE IF ur = "exc"
        THEN [step |-> Step(R("error", thread), ga, nT, engRuns, active_sessions),
              thread |-> thread]
        ELSE IF ur = "http_err"
        THEN [step |-> Step(R("submit_failed", thread), ga, nT, engRuns,
                            active_sessions),
              thread |-> thread]
        ELSE IF ur = "ok_norunid"
        THEN [step |-> Step(R("no_run_id", thread), ga, nT,
                            SubmitRun(engRuns, thread, ga.id, ur), active_sessions),
              thread |-> thread]
        ELSE [step |-> Step(R("started", thread), ga, nT,
                            SubmitRun(engRuns, thread, ga.id, ur), active_sessions),
              thread |-> thread]

D_conduct_research ==
    /\ server = "deep"
    /\ Free
    /\ \E timeout \in DeepTimeouts :
       \E c \in {conduct_research(new_session, h, th, ga, ur) :
                    new_session \in BOOLEAN, h \in Responses, th \in CreateThread,
                    ga \in GetAssistant, ur \in SubmitResponses} :
        /\ InBounds(c.step)
        /\ Apply(c.step)
        /\ current_thread_id' = c.thread
        /\ tasks' = IF c.step.ret.kind = "started"
                    THEN [tasks EXCEPT ![1] =
                            NewTask("wait_for_completion", NoSession, c.thread,
                                    Len(c.step.runs), timeout)]
                    ELSE tasks
    /\ UNCHANGED <<server, clock>>

(***************************************************************************)
(* src/simple_research_mcp.py                                              *)
(***************************************************************************)
\* research_question up to its polling loop.  current_thread_id is
\* assigned what create_thread() returns, None included.
simple_research_question(h, ga, th, ur) ==
    LET docs == <<Call("docs", h)>>
        issued(kind) ==
            CASE kind = "engine_unavailable" -> docs
              [] kind = "assistant_failed" -> docs \o ga.calls
              [] kind = "thread_failed" -> docs \o ga.calls \o th.calls
              [] OTHER -> docs \o ga.calls \o th.calls \o <<Call("runs", ur)>>
        R(kind, t) ==
            [Ret("simple_research_question", kind, NoSession, t, TEmpty, "None",
                 -1, {}) EXCEPT !.calls = issued(kind)]
    IN  IF h = "exc"
        THEN [step |-> Only(R("engine_unavailable", NoId)),
              thread |-> current_thread_id]
        ELSE IF ga.id = NoId
        THEN [step |-> Step(R("assistant_failed", NoId), ga, engThreads, engRuns,
                            active_sessions),
              thread |-> current_thread_id]
        ELSE IF th.id = NoId
        THEN [step |-> Step(R("thread_failed", NoId), ga, engThreads, engRuns,
                            active_sessions),
              thread |-> NoId]
        ELSE IF ur = "exc"
        THEN [step |-> Step(R("error", th.id), ga, th.nT, engRuns, active_sessions),
              thread |-> th.id]
        ELSE IF ur = "http_err"
        THEN [step |-> Step(R("submit_failed", th.id), ga, th.nT, engRuns,
                            active_sessions),
              thread |-> th.id]
        ELSE IF ur = "ok_norunid"
        THEN [step |-> Step(R("error", th.id), ga, th.nT,
                            SubmitRun(engRuns, th.id, ga.id, ur), active_sessions),
              thread |-> th.id]
        ELSE [step |-> Step(R("started", th.id), ga, th.nT,
                            SubmitRun(engRuns, th.id, ga.id, ur), active_sessions),
              thread |-> th.id]

S_research_question ==
    /\ server = "simple"
    /\ Free
    /\ \E c \in {simple_research_question(h, ga, th, ur) :
                    h \in Responses, ga \in GetAssistant, th \in CreateThread,
                    ur \in SubmitResponses} :
        /\ InBounds(c.step)
        /\ Apply(c.step)
        /\ current_thread_id' = c.thread
        /\ tasks' = IF c.step.ret.kind = "started"
                    THEN [tasks EXCEPT ![1] =
                            NewTask("simple_research_question", NoSession, c.thread,
                                    Len(c.step.runs), SimplePolls)]
                    ELSE tasks
    /\ UNCHANGED <<server, clock>>

\* the outcome has reached its caller; the process takes the next request
Respond ==
    /\ ~Ready
    /\ ret' = NoRet
    /\ UNCHANGED <<server, clock, assistant_id, active_sessions,
                   current_thread_id, engAssistants, engThreads, engRuns,
                   tasks, createCalls, timedOut>>

Next ==
    \/ Respond
    \/ Tick
    \/ EngineStep
    \/ A_start_research
    \/ A_check_research_progress
    \/ A_get_research_results
    \/ A_continue_research
    \/ List_active_sessions
    \/ A_research_question
    \/ A_continue_research_with_clarification
    \/ A_run_submitted
    \/ A_poll_for_completion
    \/ F_research_question
    \/ F_continue_research_with_clarification
    \/ F_get_research_by_thread_id
    \/ D_conduct_research
    \/ S_research_question
    \/ Wait

Spec == Init /\ [][Next]_vars

\* one process of async_research_mcp.py
NextAsync ==
    \/ Respond
    \/ Tick
    \/ EngineStep
    \/ A_start_research
    \/ A_check_research_progress
    \/ A_get_research_results
    \/ A_continue_research
    \/ List_active_sessions
    \/ A_research_question
    \/ A_continue_research_with_clarification
    \/ Wait

InitAsync == Init /\ server = "async"

SpecAsync == InitAsync /\ [][NextAsync]_vars

\* one process of async_research_mcp_final.py
NextFinal ==
    \/ Respond
    \/ Tick
    \/ EngineStep
    \/ List_active_sessions
    \/ F_research_question
    \/ F_continue_research_with_clarification
    \/ F_get_research_by_thread_id
    \/ Wait

InitFinal == Init /\ server = "final"

SpecFinal == InitFinal /\ [][NextFinal]_vars

\* one process of mcp_deep_research_server.py
NextDeep ==
    \/ Respond
    \/ EngineStep
    \/ D_conduct_research
    \/ Wait

InitDeep == Init /\ server = "deep"

SpecDeep == InitDeep /\ [][NextDeep]_vars

\* one process of simple_research_mcp.py
NextSimple ==
    \/ Respond
    \/ EngineStep
    \/ S_research_question
    \/ Wait

InitSimple == Init /\ server = "simple"

SpecSimple == InitSimple /\ [][NextSimple]_vars

\* poll_for_completion of async_research_mcp.py
NextPoll ==
    \/ Respond
    \/ Tick
    \/ EngineStep
    \/ A_run_submitted
    \/ A_poll_for_completion
    \/ Wait

InitPoll == Init /\ server = "async_poll"

SpecPoll == InitPoll /\ [][NextPoll]_vars

(***************************************************************************)
(* Properties.                                                             *)
(***************************************************************************)
\* the run a session record points at is in flight at the engine
InFlight(session) == engRuns[session.run_id].status \in NonTerminal

\* the runs in flight on a thread
RunsInFlight(thread) ==
    {r \in DOMAIN engRuns :
        engRuns[r].thread = thread /\ engRuns[r].status \in NonTerminal}

\* C1: a session disappears from the registry only as the effect of an
\* operation that returned that session's non-empty final report; every
\* other outcome leaves the session and its thread id in the registry.
C1_RemovedOnlyWithOwnReport ==
    [][\A sid \in DOMAIN active_sessions :
         sid \notin DOMAIN active_sessions'
            => /\ ret'.kind = "report"
               /\ ret'.text # TEmpty
               /\ ret'.thread = active_sessions[sid].thread_id]_vars

\* a wait for the run of a session has returned
SessionWaitRet ==
    \/ /\ server = "async"
       /\ ret.op \in {"research_question", "continue_research_with_clarification"}
    \/ /\ server = "final"
       /\ ret.op = "wait_for_research_completion"

\* C2: a wait during which no poll reports a terminal status ends timed
\* out, and when it has ended timed out the session is still registered,
\* with status running and with the thread id and run id the wait was for.
C2_TimedOutKeepsSession ==
    /\ ( /\ SessionWaitRet
         /\ ret.kind \notin {"no_sessions", "not_found", "error_checking", "wait_error"}
         /\ ret.saw = "None" )
        => ret.kind = "timed_out"
    /\ (ret.kind = "timed_out" /\ ret.sid # NoSession)
        => /\ ret.sid \in DOMAIN active_sessions
           /\ active_sessions[ret.sid].thread_id = ret.thread
           /\ active_sessions[ret.sid].run_id = ret.run
           /\ server = "async" => active_sessions[ret.sid].status = "running"

\* the texts of the final reports a thread state can hold
ReportTexts == {s.final_report.text : s \in {x \in Snapshots : Truthy(x.final_report)}}

\* C3: whenever the fetched thread state holds a non-empty final report,
\* get_research_results, the success branch of the waiters and
\* get_research_by_thread_id return the report, never a clarification or
\* a no-result outcome, whatever the last message contains.
C3_ReportFirst ==
    (ret.fetched \in {"report", "report_and_question"} /\ ret.op # "poll_for_completion")
        => ret.kind = "report" /\ ret.text \in ReportTexts

\* get_research_results has returned the report of a thread state whose
\* last message looks like a question
C3_Witness ==
    /\ ret.op = "get_research_results"
    /\ ret.fetched = "report_and_question"
    /\ ret.kind = "report"

\* C4: over the whole execution POST /assistants is issued at most once,
\* however many callers resolve the assistant while the cache is empty.
C4_CreateAtMostOnce == createCalls <= 1

\* C5: continue_research replaces a session's run id only when the run it
\* replaces has reached a terminal status, and no session's thread ever has
\* two runs in flight at the engine.
C5_RunReplacedOnlyWhenTerminal ==
    /\ [][\A sid \in DOMAIN active_sessions \cap DOMAIN active_sessions' :
            ( /\ active_sessions'[sid].thread_id = active_sessions[sid].thread_id
              /\ active_sessions'[sid].run_id # active_sessions[sid].run_id )
                => ~InFlight(active_sessions[sid])]_vars
    /\ [](\A sid \in DOMAIN active_sessions :
            Cardinality(RunsInFlight(active_sessions[sid].thread_id)) <= 1)

\* C6: once a session's wait has ended timed out, get_research_by_thread_id
\* on its thread, finding a non-empty final report, returns the report and
\* the session is then no longer listed by list_active_sessions.
C6_RecoveredSessionUnlisted ==
    (ret.op = "get_research_by_thread_id" /\ ret.kind = "report")
        => /\ ret.text # TEmpty
           /\ \A sid \in timedOut :
                active_sessions[sid].thread_id = ret.thread
                    => sid \notin list_active_sessions.listed

\* how the start of a research call ended, per server script
StartRet ==
    \/ server = "async" /\ ret.op = "start_research"
    \/ server = "final" /\ ret.op = "research_question"
    \/ server = "deep" /\ ret.op = "conduct_research"

StartFailures ==
    {"engine_unavailable", "assistant_failed", "thread_failed", "submit_failed",
     "error", "no_run_id"}

\* C7: for every combination of engine answers the start of a research
\* call either registers a session under the id it returns, one that
\* check_research_progress and get_research_results then accept, or
\* returns a classified failure and no session id; no exception leaves it.
C7_StartedOrClassifiedFailure ==
    StartRet =>
        IF ret.kind = "started"
        THEN \/ server = "deep"
             \/ /\ ret.sid \in DOMAIN active_sessions
                /\ active_sessions[ret.sid].thread_id = ret.thread
                /\ server = "async" =>
                    /\ \A resp \in Responses :
                        check_research_progress(active_sessions, ret.sid, resp)
                            .ret.kind # "not_found"
                    /\ \A resp \in Responses, sa \in StateResponses :
                        get_research_results(active_sessions, ret.sid, resp, sa)
                            .ret.kind # "not_found"
        ELSE ret.kind \in StartFailures /\ ret.sid = NoSession

\* start_research has returned the id of a session it registered
C7_Witness ==
    /\ server = "async"
    /\ ret.op = "start_research"
    /\ ret.kind = "started"
    /\ ret.sid \in DOMAIN active_sessions

\* C8: between any two moments at which check_research_progress would
\* report a session as in progress, whatever registry operation happens in
\* between, the session record is unchanged and the elapsed time does not
\* decrease.
C8_RecordStableWhileRunning ==
    [][\A sid \in DOMAIN active_sessions \cap DOMAIN active_sessions' :
         ( /\ InFlight(active_sessions[sid])
           /\ engRuns'[active_sessions'[sid].run_id].status \in NonTerminal )
            => /\ active_sessions'[sid] = active_sessions[sid]
               /\ clock' - active_sessions'[sid].started_at
                    >= clock - active_sessions[sid].started_at]_vars

\* C9: a wait ends timed out only when none of its polls observed a
\* terminal run status.
C9_TimedOutOnlyWithoutTerminal ==
    (ret.op \in {"poll_for_completion", "wait_for_completion"} /\ ret.kind = "timed_out")
        => ret.saw = "None"

\* C10: a waiter that has observed the run status success does not go back
\* to polling.
C10_NoPollingAfterSuccess ==
    \A t \in TaskIds : tasks[t].pc = "waiting" => tasks[t].saw # "success"

\* a call that waits for a run has returned
AnyWaitRet ==
    \/ SessionWaitRet
    \/ ret.op \in {"poll_for_completion", "wait_for_completion"}

\* C11: a poll that observes error, timeout or interrupted ends the wait on
\* that poll as a failure that carries the observed status, in every waiter.
C11_FailedCarriesStatus ==
    /\ \A t \in TaskIds :
        tasks[t].pc = "waiting" => tasks[t].saw \notin FailedTerminal
    /\ (AnyWaitRet /\ ret.saw \in FailedTerminal)
        => ret.kind = "run_failed" /\ ret.status = ret.saw

\* the outcomes of a wait that ended because a request of a poll raised
PollErrors == {"wait_error", "poll_error", "error_checking"}

\* C12: a poll whose status request fails, by an exception or by a
\* non-success answer, ends the wait on that poll; no wait goes on polling
\* after a failed status request.
C12_AnyPollFailureEndsWait ==
    \A t \in TaskIds : tasks[t].pc = "waiting" => tasks[t].failed = "none"

\* C12, for the failures that end a wait: a status request that raises ends
\* the wait on that poll with an error outcome and no wait goes on polling
\* after it; a status request answered with a non-success status does not
\* end the wait.
C12_RaisedPollEndsWait ==
    /\ \A t \in TaskIds : tasks[t].pc = "waiting" => tasks[t].failed # "exc"
    /\ (AnyWaitRet /\ ret.failed = "exc") => ret.kind \in PollErrors
    /\ (AnyWaitRet /\ ret.kind \in PollErrors /\ ret.saw # "success")
        => ret.failed = "exc"

\* wait_for_research_completion has ended on the poll whose status request
\* raised
C12_Witness ==
    /\ ret.op = "wait_for_research_completion"
    /\ ret.failed = "exc"
    /\ ret.kind = "wait_error"

\* C13: a failed poll is not fatal to the wait: no wait ends on the poll
\* whose status request failed.
C13_FailedPollNotFatal == AnyWaitRet => ret.failed # "exc"

\* C13, for the failures that are retried: in the waiters of the async
\* scripts a status request answered with a non-success status does not end
\* the wait; the wait then ends as it would have without it: with the
\* failure of the run for a later error, timeout or interrupted, with a
\* result of get_research_results for a later success seen by
\* research_question, and timed out if no terminal status comes.
C13_RejectedPollRetried ==
    (AnyWaitRet /\ server # "deep" /\ ret.failed = "http_err") =>
        /\ ret.saw \in FailedTerminal
            => ret.kind = "run_failed" /\ ret.status = ret.saw
        /\ ret.saw = "None" => ret.kind = "timed_out"
        /\ (ret.saw = "success" /\ server = "async")
            => ret.kind \in {"report", "clarification", "no_result",
                             "could_not_retrieve", "error_getting"}

\* research_question has returned the failure of its run after a status
\* request that was answered with a non-success status
C13_Witness ==
    /\ server = "async"
    /\ ret.op = "research_question"
    /\ ret.failed = "http_err"
    /\ ret.saw \in FailedTerminal
    /\ ret.kind = "run_failed"

\* the sample texts that hold a question mark, "clarify" or "specify" in
\* any case
QuestionTexts == {TWhy, TClarifyUp, TSpecify}

\* the thread state the call read has no final report and its last message
\* carries one of the question texts
AsksQuestion(s) ==
    /\ ~s.final_report.has \/ s.final_report.text = TEmpty
    /\ s.messages # << >>
    /\ s.messages[Len(s.messages)].shape \in {"dict", "str"}
    /\ s.messages[Len(s.messages)].content \in QuestionTexts

\* the calls that classify a thread state
Extractors ==
    {"get_research_results", "research_question",
     "continue_research_with_clarification", "wait_for_research_completion",
     "get_research_by_thread_id"}

\* C14: when the thread state has no final report and its last message
\* holds a question mark, "clarify" or "specify" in any case, the outcome is
\* the clarification request carrying exactly that message's text, and the
\* call leaves every session, with its thread id, in the registry.
C14_QuestionIsClarification ==
    /\ []((ret.op \in Extractors /\ AsksQuestion(ret.state))
            => /\ ret.kind = "clarification"
               /\ ret.text = ret.state.messages[Len(ret.state.messages)].content)
    /\ [][(ret'.op \in Extractors /\ AsksQuestion(ret'.state))
            => /\ DOMAIN active_sessions' = DOMAIN active_sessions
               /\ \A sid \in DOMAIN active_sessions :
                    active_sessions'[sid].thread_id = active_sessions[sid].thread_id]_vars

\* get_research_results has returned the upper-case "CLARIFY it" of a
\* thread state without a final report as a clarification request
C14_Witness ==
    /\ ret.op = "get_research_results"
    /\ AsksQuestion(ret.state)
    /\ ret.text = TClarifyUp
    /\ ret.kind = "clarification"
    /\ ret.sid \in DOMAIN active_sessions

\* the thread state the call read has no final report and no last message
\* that asks a question
NothingUsable(s) ==
    /\ s # NoSnapshot
    /\ ~s.final_report.has \/ s.final_report.text = TEmpty
    /\ \/ s.messages = << >>
       \/ s.messages[Len(s.messages)].shape = "dict_nocontent"
       \/ s.messages[Len(s.messages)].content = TParis

\* the calls that wait for a run and classify its thread state
WaitingExtractors ==
    {"get_research_results", "research_question",
     "continue_research_with_clarification", "wait_for_research_completion",
     "wait_for_completion"}

\* C15: in every front end that waits for a run, a run that ended in
\* success and left neither a final report nor a question yields the
\* no-usable-result outcome, which is none of report, clarification, run
\* failure and timed out.
C15_NothingUsableIsNoResult ==
    (ret.op \in WaitingExtractors /\ NothingUsable(ret.state))
        => ret.kind = "no_result"

\* C16: a successful session creation stores the session under an id that
\* was no key of the registry: it replaces no session, the registry grows
\* by exactly one session, and the new session has status running.
C16_CreatedUnderFreshId ==
    [][(server \in {"async", "final"} /\ ret'.kind = "started")
        => /\ ret'.sid \notin DOMAIN active_sessions
           /\ Cardinality(DOMAIN active_sessions')
                = Cardinality(DOMAIN active_sessions) + 1
           /\ server = "async" => active_sessions'[ret'.sid].status = "running"]_vars


\* the names of the remote calls an operation issued
Issued(calls) == {calls[i][1] : i \in 1..Len(calls)}

\* C17: once the assistant id is cached, no operation changes it or issues
\* an assistant search or creation, every run submitted from then on
\* carries the cached id, and so all runs of the process carry one and the
\* same assistant id.
C17_CachedAssistantReused ==
    /\ [][assistant_id # NoId =>
            /\ assistant_id' = assistant_id
            /\ createCalls' = createCalls
            /\ Issued(ret'.calls) \cap {"search", "create"} = {}
            /\ \A r \in DOMAIN engRuns' \ DOMAIN engRuns :
                    engRuns'[r].assistant = assistant_id]_vars
    /\ [](\A r1, r2 \in DOMAIN engRuns :
            engRuns[r1].assistant = engRuns[r2].assistant)

\* a second session has been started on the cached assistant: the call
\* issued the health probe, the thread creation and the submission only,
\* and both runs carry the cached id
C17_Witness ==
    /\ ret.kind = "started"
    /\ ret.calls = <<Call("docs", "ok"), Call("threads", "ok"), Call("runs", "ok")>>
    /\ Len(engRuns) = 2
    /\ assistant_id # NoId
    /\ \A r \in DOMAIN engRuns : engRuns[r].assistant = assistant_id


\* the operation issued the call name and the engine answered it with answer
Answered(name, answer) ==
    \E i \in 1..Len(ret.calls) : ret.calls[i] = Call(name, answer)

\* C18: an assistant is created only right after a search that completed
\* and found none; a search that finds one caches it and no create follows;
\* a search that raised or was answered with a non-success status fails the
\* resolution: no create is issued and nothing is cached.
C18_CreateOnlyAfterEmptySearch ==
    /\ \A i \in 1..Len(ret.calls) :
        ret.calls[i][1] = "create"
            => i > 1 /\ ret.calls[i - 1] = Call("search", "empty")
    /\ Answered("search", "found")
        => "create" \notin Issued(ret.calls) /\ assistant_id # NoId
    /\ (Answered("search", "exc") \/ Answered("search", "http_err"))
        => /\ "create" \notin Issued(ret.calls)
           /\ assistant_id = NoId
           /\ ret.kind = "assistant_failed"


\* C19: the start of a research call issues an assistant search or
\* creation, a thread creation or a run submission only after the health
\* probe was answered with a success status; when the probe raises or is
\* answered with a non-success status the call returns engine unavailable
\* and issues no other request.
C19_HealthGatesStart ==
    StartRet =>
        /\ ret.calls # << >> /\ ret.calls[1][1] = "docs"
        /\ Len(ret.calls) > 1 => ret.calls[1] = Call("docs", "ok")
        /\ ret.calls[1] # Call("docs", "ok")
            => ret.kind = "engine_unavailable" /\ Len(ret.calls) = 1


\* the start of a research call of the scripts that keep a registry
StartOp(r) ==
    \/ server = "async" /\ r.op = "start_research"
    \/ server = "final" /\ r.op = "research_question"

\* a request of the start sequence that failed: the resolution of the
\* assistant (its search raised, or its create was not answered with
\* success), the thread creation, or the run submission
FailedCall(c) ==
    \/ c = Call("search", "exc")
    \/ c[1] \in {"create", "threads", "runs"} /\ c[2] # "ok"

\* C20: when the assistant resolution, the thread creation or the run
\* submission of a start fails, the failed request is the last the call
\* issues, the call returns a failure and no session id, starts no wait,
\* submits no run unless the failed request was the submission itself, and
\* leaves the registry exactly as it was.
C20_FailedStartAborts ==
    [][\A i \in 1..Len(ret'.calls) :
        (StartOp(ret') /\ FailedCall(ret'.calls[i]))
            => /\ i = Len(ret'.calls)
               /\ ret'.kind \in StartFailures
               /\ ret'.sid = NoSession
               /\ active_sessions' = active_sessions
               /\ tasks' = tasks
               /\ ret'.calls[i][1] # "runs" => engRuns' = engRuns]_vars

\* with one session registered, a second start_research has ended on a
\* rejected run submission and the registry still holds that one session
C20_Witness ==
    /\ server = "async"
    /\ ret.op = "start_research"
    /\ ret.kind = "submit_failed"
    /\ ret.calls[Len(ret.calls)] = Call("runs", "http_err")
    /\ engThreads = 2
    /\ Cardinality(DOMAIN active_sessions) = 1
    /\ Len(engRuns) = 1


\* the run submissions among the remote calls an operation issued
SubmitCalls(calls) == {i \in 1..Len(calls) : calls[i][1] = "runs"}

\* C21: a run submission is never repeated: every operation issues at most
\* one POST /threads/{id}/runs whatever the engine answers, a step adds at
\* most one run at the engine, and a run is added only by an operation that
\* issued its one submission, never by a poll or a timeout of a wait.
C21_SubmitNeverRetried ==
    [][/\ Cardinality(SubmitCalls(ret'.calls)) <= 1
       /\ Len(engRuns') <= Len(engRuns) + 1
       /\ (Len(engRuns') > Len(engRuns) /\ server # "async_poll")
            => Cardinality(SubmitCalls(ret'.calls)) = 1]_vars

\* continue_research has returned the failure of a submission that was
\* answered with a non-success status: it issued that one submission and
\* the engine holds no second run
C21_Witness ==
    /\ ret.op = "continue_research"
    /\ ret.kind = "continue_failed"
    /\ ret.calls = <<Call("runs", "http_err")>>
    /\ Len(engRuns) = 1


\* how a continue operation itself ends (the wait that may follow it ends
\* with the outcomes of a wait)
ContinueOps == {"continue_research", "continue_research_with_clarification"}
ContinueFailures ==
    {"not_found", "no_sessions", "assistant_failed", "error_continuing",
     "continue_failed"}

\* C22: after a successful continue the session of the continued thread
\* holds the run the engine just created, the same thread id and question,
\* and status running where a status is stored; after a failed continue the
\* registry is unchanged.
C22_ContinueReplacesRun ==
    [][ret'.op \in ContinueOps =>
        /\ ret'.kind = "continued" =>
            \A sid \in DOMAIN active_sessions :
                active_sessions[sid].thread_id = ret'.thread =>
                    /\ sid \in DOMAIN active_sessions'
                    /\ active_sessions'[sid].run_id = Len(engRuns')
                    /\ engRuns'[Len(engRuns')].thread = ret'.thread
                    /\ active_sessions'[sid].thread_id = active_sessions[sid].thread_id
                    /\ active_sessions'[sid].question = active_sessions[sid].question
                    /\ "status" \in DOMAIN active_sessions'[sid]
                        => active_sessions'[sid].status = "running"
        /\ ret'.kind \in ContinueFailures => active_sessions' = active_sessions]_vars


\* the failures a call returns once the request has a thread
RecoverableFailures ==
    {"submit_failed", "error", "run_failed", "wait_error", "timed_out",
     "no_result", "error_checking", "error_getting", "could_not_retrieve"}

\* C23: in the scripts with a registry every failure returned once the
\* request has a thread names the session id or the thread id in its
\* message.
C23_FailureCarriesId ==
    ( /\ server \in {"async", "final"}
      /\ ret.kind \in RecoverableFailures
      /\ ret.thread # NoId )
        => ret.carries \cap {"session", "thread"} # {}


\* a call that waits is suspended between two polls
Suspended(t) == tasks[t].pc = "waiting" /\ tasks[t].wake > clock

\* C24: waits are independent: while the calls that wait are suspended
\* between polls, the process is free to take the steps of any other
\* request, so another request can start, poll and return.
C24_SuspendedWaitBlocksNobody ==
    ( /\ Ready
      /\ \E t \in TaskIds : Suspended(t)
      /\ \A t \in TaskIds : tasks[t].pc = "waiting" => Suspended(t) )
        => Free


\* the deadline the caller of a wait asked for: the timeout argument of
\* the tool; research_question of async_research_mcp.py is reached through
\* research_question_sync(question, timeout=SyncCallerTimeout)
CallerTimeout(task) ==
    IF server = "async" /\ task.op = "research_question"
    THEN SyncCallerTimeout ELSE task.timeout

\* C25: a wait gives up once its elapsed time has reached the timeout its
\* caller supplied: a turn the waiter takes at or after that deadline is
\* the return of the timed-out outcome, so research_question_sync called
\* with timeout T polls no more once T has elapsed.
C25_WaitEndsAtCallerTimeout ==
    [][\A t \in TaskIds :
        ( /\ server \in {"async", "final"}
          /\ tasks[t].pc = "waiting"
          /\ tasks'[t] # tasks[t]
          /\ clock - tasks[t].start >= CallerTimeout(tasks[t]) )
            => ret'.kind = "timed_out"]_vars


C27_ThreadOwnedByOneSession ==
    \A a, b \in DOMAIN active_sessions :
        a # b => active_sessions[a].thread_id # active_sessions[b].thread_id

\* two sessions are live, each on a thread of its own with a run on it
C27_Witness ==
    /\ Cardinality(DOMAIN active_sessions) = 2
    /\ \A a \in DOMAIN active_sessions :
        /\ active_sessions[a].run_id \in DOMAIN engRuns
        /\ engRuns[active_sessions[a].run_id].thread = active_sessions[a].thread_id


\* C28: every session of the registry holds a thread the engine created
\* and a run the engine created on that thread; none holds an absent
\* thread id or run id.
C28_SessionHoldsEngineIds ==
    \A sid \in DOMAIN active_sessions :
        /\ active_sessions[sid].thread_id \in 1..engThreads
        /\ active_sessions[sid].run_id \in DOMAIN engRuns
        /\ engRuns[active_sessions[sid].run_id].thread = active_sessions[sid].thread_id

\* start_research has just registered a session: it holds the thread the
\* call created and the run the engine added last, which is on that thread
C28_Witness ==
    /\ ret.op = "start_research"
    /\ ret.kind = "started"
    /\ ret.sid \in DOMAIN active_sessions
    /\ active_sessions[ret.sid].thread_id = engThreads
    /\ active_sessions[ret.sid].run_id = Len(engRuns)
    /\ engRuns[Len(engRuns)].thread = engThreads


\* C29: get_research_by_thread_id bypasses the registry: the call changes
\* no session and nothing else, its outcome names no session and is the
\* classification of the thread state it fetched, or the failure of that
\* one request, whether or not a session with the thread is registered.
C29_ByThreadBypassesRegistry ==
    [][ret'.op = "get_research_by_thread_id" =>
        /\ UNCHANGED <<active_sessions, tasks, engRuns, engThreads,
                       assistant_id, timedOut>>
        /\ ret'.sid = NoSession
        /\ IF ret'.fetched = NotFetched
           THEN ret'.kind \in {"error_retrieving", "could_not_access"}
           ELSE /\ ret'.kind = ExtractByThread(ret'.state).kind
                /\ ret'.text = ExtractByThread(ret'.state).text]_vars

\* with an empty registry get_research_by_thread_id has returned the report
\* of a thread that a run was submitted on
C29_Witness ==
    /\ ret.op = "get_research_by_thread_id"
    /\ ret.kind = "report"
    /\ active_sessions = << >>
    /\ \E r \in DOMAIN engRuns : engRuns[r].thread = ret.thread


\* a call that waits for a run has returned from its wait, in any of the
\* five servers
WaitOutcome ==
    \/ AnyWaitRet
    \/ ret.op = "simple_research_question"

\* the outcomes of a wait that yield data of the thread
Succeeded == {"success", "report", "clarification"}

\* C30: a wait ends with data only if a poll of it observed the run status
\* success; it ends as failed only if a poll observed error, timeout or
\* interrupted, or a request of a poll raised; and the status such an
\* outcome reports is never pending or running.
C30_OutcomesSound ==
    /\ (WaitOutcome /\ ret.kind \in Succeeded)
        => ret.saw = "success" /\ ret.status \notin NonTerminal
    /\ (WaitOutcome /\ ret.kind = "run_failed")
        => ret.saw \in FailedTerminal /\ ret.status \notin NonTerminal
    /\ (WaitOutcome /\ ret.kind \in PollErrors)
        => ret.failed = "exc" \/ ret.saw = "success"

\* the loop of simple_research_mcp.py has returned the report of a run a
\* poll of it observed as success
C30_Witness ==
    /\ ret.op = "simple_research_question"
    /\ ret.kind = "report"
    /\ ret.saw = "success"
    /\ engRuns[ret.run].status = "success"


\* C31: get_research_results returns the report of a session, and removes
\* the session, only in a call whose status request found the session's run
\* in status success; a call whose status request fails or is answered
\* with a non-success status delivers no report and keeps the session.
C31_ReportOnlyAfterSuccess ==
    [][(ret'.op = "get_research_results" /\ ret'.kind = "report")
        => /\ ret'.sid \in DOMAIN active_sessions
           /\ ret'.calls[1] = Call("status", "ok")
           /\ engRuns[active_sessions[ret'.sid].run_id].status = "success"]_vars


\* the statuses a record of the registry of async_research_mcp.py takes
SessionStatuses == {"running", "completed", "error"}

\* C32: in the registry of async_research_mcp.py every session's status is
\* running, completed or error; a completed session's current run has
\* status success at the engine and an error session's current run has
\* status error, timeout or interrupted, whatever check_research_progress
\* and continue_research calls came before.
C32_StatusFollowsCurrentRun ==
    server \in {"async", "async_poll"} =>
        \A sid \in DOMAIN active_sessions :
            LET session == active_sessions[sid]
            IN  /\ session.status \in SessionStatuses
                /\ session.status = "completed"
                    => engRuns[session.run_id].status = "success"
                /\ session.status = "error"
                    => engRuns[session.run_id].status \in FailedTerminal

\* a session that was continued with a second run on its thread has been
\* found completed again
C32_Witness ==
    /\ server = "async"
    /\ \E sid \in DOMAIN active_sessions :
        /\ active_sessions[sid].status = "completed"
        /\ \E r \in DOMAIN engRuns :
            /\ r < active_sessions[sid].run_id
            /\ engRuns[r].thread = active_sessions[sid].thread_id


\* a call has returned what it made of the thread state it fetched
Extracted(op) == ret.op = op /\ ret.fetched # NotFetched

\* C33: get_research_results, the success branch of
\* wait_for_research_completion and get_research_by_thread_id put every
\* thread state into the same class among report, clarification and no
\* usable result.
C33_SameClass ==
    ret.fetched # NotFetched
        => /\ ExtractWait(ret.state).kind = ExtractResults(ret.state).kind
           /\ ExtractByThread(ret.state).kind = ExtractResults(ret.state).kind

\* C33, with the fourth class of get_research_by_thread_id: the three
\* copies agree on report and on clarification for every thread state, and
\* each call returns the class of its copy; where the other two find no
\* usable result, get_research_by_thread_id finds the same unless the
\* thread's status is busy, which it reports as research in progress.
C33_SameClassUnlessBusy ==
    /\ Extracted("get_research_results")
        => ret.kind = ExtractResults(ret.state).kind
    /\ Extracted("wait_for_research_completion")
        => ret.kind = ExtractWait(ret.state).kind
    /\ Extracted("get_research_by_thread_id")
        => ret.kind = ExtractByThread(ret.state).kind
    /\ ret.fetched # NotFetched
        => /\ ExtractWait(ret.state) = ExtractResults(ret.state)
           /\ \/ ExtractByThread(ret.state) = ExtractResults(ret.state)
              \/ /\ ExtractResults(ret.state).kind = "no_result"
                 /\ ret.state.status = "busy"
                 /\ ExtractByThread(ret.state).kind = "in_progress"

\* get_research_by_thread_id has reported research in progress for a thread
\* state in which get_research_results finds no usable result
C33_Witness ==
    /\ Extracted("get_research_by_thread_id")
    /\ ret.kind = "in_progress"
    /\ ExtractResults(ret.state).kind = "no_result"


\* the operations of async_research_mcp.py that take a session id
SessionOps == {"check_research_progress", "get_research_results", "continue_research"}

\* C34: get_research_results returning the report of a session removes the
\* session, and as long as no session is registered under that id every
\* check_research_progress, get_research_results and continue_research with
\* the id returns session not found, issues no remote call and changes
\* nothing; so the registry delivers a session's report at most once.
C34_ReportDeliveredOnce ==
    [][/\ (ret'.op = "get_research_results" /\ ret'.kind = "report")
            => /\ ret'.sid \in DOMAIN active_sessions
               /\ ret'.sid \notin DOMAIN active_sessions'
       /\ (ret'.op \in SessionOps /\ ret'.sid \notin DOMAIN active_sessions)
            => /\ ret'.kind = "not_found"
               /\ ret'.calls = << >>
               /\ UNCHANGED <<active_sessions, assistant_id, engAssistants,
                              engThreads, engRuns, createCalls>>]_vars

\* a call with the id of a session that is not registered has returned,
\* while the engine holds a finished run on a thread no session holds any
\* more
C34_Witness ==
    /\ ret.op \in SessionOps
    /\ ret.kind = "not_found"
    /\ ret.sid \notin DOMAIN active_sessions
    /\ \E r \in DOMAIN engRuns :
        /\ engRuns[r].status = "success"
        /\ \A sid \in DOMAIN active_sessions :
            active_sessions[sid].thread_id # engRuns[r].thread


\* C35: with several waits in flight, a wait that ends changes at most the
\* record of its own session: delivering the report of one session removes
\* that session only, and the record of every other session (the sessions
\* of the other threads) stays as it was; a wait that sleeps changes no
\* record.
C35_WaitTouchesOwnSessionOnly ==
    [][/\ ret'.op = "wait_for_research_completion"
            => \A sid \in DOMAIN active_sessions :
                active_sessions[sid].thread_id # ret'.thread
                    => /\ sid \in DOMAIN active_sessions'
                       /\ active_sessions'[sid] = active_sessions[sid]
       /\ (server = "final" /\ ret' = ret /\ tasks' # tasks)
            => active_sessions' = active_sessions]_vars


\* the calls of the single-thread front ends that may create a thread
SingleThreadOps == {"conduct_research", "simple_research_question"}

\* C36: in mcp_deep_research_server.py and simple_research_mcp.py a call
\* whose thread creation fails leaves the remembered current thread id as
\* it was, so a thread id stored before the call is still stored after it.
C36_FailedCreateKeepsThread ==
    [][(ret'.op \in SingleThreadOps /\ ret'.kind = "thread_failed")
        => current_thread_id' = current_thread_id]_vars


\* C37: a resolution of the assistant that fails leaves the cache empty, and
\* it has searched the engine, as every resolution on an empty cache does:
\* the cache is filled only by a call that searched; once filled, the cache
\* is never overwritten and never cleared.
C37_FailedResolutionNotCached ==
    [][/\ ret'.kind = "assistant_failed"
            => /\ assistant_id = NoId
               /\ assistant_id' = NoId
               /\ "search" \in Issued(ret'.calls)
       /\ (assistant_id = NoId /\ assistant_id' # NoId)
            => "search" \in Issued(ret'.calls)
       /\ assistant_id # NoId
            => assistant_id' = assistant_id]_vars

\* a resolution has failed on a cache left empty by an earlier failed
\* resolution, each after a creation request of its own
C37_Witness ==
    /\ ret.kind = "assistant_failed"
    /\ assistant_id = NoId
    /\ createCalls = 2
    /\ Issued(ret.calls) \cap {"search", "create"} = {"search", "create"}


\* ceil(T / 2) for a positive T, else 0: the passes of `while wait_time <
\* timeout` when every pass adds 2 to wait_time
FetchBound(T) == IF T <= 0 THEN 0 ELSE (T + 1) \div PollInterval

\* the status requests a counting wait has issued and slept after, and the
\* most it issues
Fetches(task) ==
    IF task.op = "wait_for_completion" THEN task.wait_time \div PollInterval
    ELSE task.wait_time
MaxFetches(task) ==
    IF task.op = "wait_for_completion" THEN FetchBound(task.timeout)
    ELSE task.timeout
CounterWaits == {"wait_for_completion", "simple_research_question"}

\* C38: the waits that count their sleeps bound their status requests:
\* DeepResearchMCP.wait_for_completion with timeout T issues at most
\* ceil(T / 2) of them, none when T <= 0, and research_question of
\* simple_research_mcp.py at most the 60 of its loop, whatever the engine
\* answers.  Every pass that issues a request and goes on adds one sleep
\* to the count, and no request is issued once the count is at its bound.
C38_FetchesBounded ==
    /\ [](\A t \in TaskIds :
            tasks[t].op \in CounterWaits
                => Fetches(tasks[t]) <= MaxFetches(tasks[t]))
    /\ [][\A t \in TaskIds :
            ( /\ tasks[t].op \in CounterWaits
              /\ tasks[t].pc = "waiting"
              /\ tasks'[t] # tasks[t]
              /\ ret'.kind # "timed_out" )
                => /\ Fetches(tasks[t]) < MaxFetches(tasks[t])
                   /\ tasks'[t].pc = "waiting"
                        => Fetches(tasks'[t]) = Fetches(tasks[t]) + 1]_vars

\* wait_for_completion with a timeout of 3 has issued its two status
\* requests and is about to time out
C38_Witness ==
    \E t \in TaskIds :
        /\ tasks[t].op = "wait_for_completion"
        /\ tasks[t].pc = "waiting"
        /\ tasks[t].timeout = OddTimeout
        /\ Fetches(tasks[t]) = FetchBound(OddTimeout)
        /\ Fetches(tasks[t]) = 2

====
